---- MODULE Spec2Model ----
(***************************************************************************)
(* Model of the duty-timeline resolution and break-detection engine of     *)
(* bus-reports-exporter (src/src/reports_exporter.py, src/src/utils/time.py*)
(* and src/src/schemas.py).                                                *)
(*                                                                         *)
(* Python values are tagged records [t, v]: a str is its sequence of       *)
(* character codes, an int is a one-element sequence, None is empty.  A    *)
(* dict is a record over the keys its schema names; a key that the dict    *)
(* does not carry holds None.  A call returns [exc, val]: exc is "none" or *)
(* the name of the exception that left the call.                           *)
(***************************************************************************)
EXTENDS Integers, Sequences, FiniteSets, TLC

\* ------------------------------------------------------------------------
\* Bounds of the model
\* ------------------------------------------------------------------------
MaxDutyEvents == 3

\* ------------------------------------------------------------------------
\* Python values
\* ------------------------------------------------------------------------
S(codes) == [t |-> "str", v |-> codes]
I(n) == [t |-> "int", v |-> <<n>>]
None == [t |-> "none", v |-> <<>>]

Ok(x) == [exc |-> "none", val |-> x]
Raise(e) == [exc |-> e, val |-> None]

\* seq[i] of a Python list, negative indices counting from the end
PyIndex(seq, i) ==
    IF i >= 0 /\ i < Len(seq) THEN Ok(seq[i + 1])
    ELSE IF i < 0 /\ -i <= Len(seq) THEN Ok(seq[Len(seq) + i + 1])
    ELSE Raise("IndexError")

RECURSIVE NatToStr(_)
NatToStr(n) ==
    IF n < 10 THEN <<48 + n>> ELSE NatToStr(n \div 10) \o <<48 + (n % 10)>>

\* str(x) for x a str or an int
PyStr(x) ==
    IF x.t = "str" THEN x
    ELSE IF x.v[1] < 0 THEN S(<<45>> \o NatToStr(-x.v[1]))
    ELSE S(NatToStr(x.v[1]))

\* a < b on two str values (code-point lexicographic order)
RECURSIVE LexLess(_, _)
LexLess(a, b) ==
    IF b = <<>> THEN FALSE
    ELSE IF a = <<>> THEN TRUE
    ELSE IF Head(a) # Head(b) THEN Head(a) < Head(b)
    ELSE LexLess(Tail(a), Tail(b))

\* a < b; Python orders str with str and int with int, anything else is a
\* TypeError
PyLess(a, b) ==
    IF a.t = "str" /\ b.t = "str" THEN Ok(LexLess(a.v, b.v))
    ELSE IF a.t = "int" /\ b.t = "int" THEN Ok(a.v[1] < b.v[1])
    ELSE Raise("TypeError")

\* s.split(sep) for a one-character sep: the list of the segments between
\* the separators (cur is the segment being read)
RECURSIVE Split(_, _, _)
Split(s, sep, cur) ==
    IF s = <<>> THEN <<cur>>
    ELSE IF Head(s) = sep THEN <<cur>> \o Split(Tail(s), sep, <<>>)
    ELSE Split(Tail(s), sep, cur \o <<Head(s)>>)

SplitDot(s) == Split(s, 46, <<>>)

IsDigits(s) == s # <<>> /\ \A i \in 1..Len(s) : s[i] \in 48..57

RECURSIVE DigitsVal(_)
DigitsVal(s) ==
    IF s = <<>> THEN 0 ELSE 10 * DigitsVal(SubSeq(s, 1, Len(s) - 1)) + (s[Len(s)] - 48)

\* the insertion of an unstable sort: x goes before the elements whose
\* field equals its own
RECURSIVE InsertByField_before_equal(_, _, _)
InsertByField_before_equal(sorted, x, field) ==
    IF sorted = <<>> THEN <<x>>
    ELSE IF ~LexLess(Head(sorted)[field].v, x[field].v)
         THEN <<x>> \o sorted
         ELSE <<Head(sorted)>> \o InsertByField_before_equal(Tail(sorted), x, field)

\* list.sort(key=lambda x: x[field]) / sorted(..., key=lambda x: x[field]) on
\* str keys: a stable sort, an element goes behind the elements it equals
RECURSIVE InsertByField(_, _, _)
InsertByField(sorted, x, field) ==
    IF sorted = <<>> THEN <<x>>
    ELSE IF LexLess(x[field].v, Head(sorted)[field].v)
         THEN <<x>> \o sorted
         ELSE <<Head(sorted)>> \o InsertByField(Tail(sorted), x, field)

RECURSIVE SortByField(_, _)
SortByField(seq, field) ==
    IF seq = <<>> THEN <<>>
    ELSE InsertByField(SortByField(SubSeq(seq, 1, Len(seq) - 1), field),
                       seq[Len(seq)], field)

\* ------------------------------------------------------------------------
\* src/src/utils/time.py
\* ------------------------------------------------------------------------
\* day_offset_to_simple_time taking the text behind the second character,
\* as if the day offset had one digit
day_offset_to_simple_time_one_digit(day_offset_time_sting) ==
    IF Len(SplitDot(day_offset_time_sting.v)) < 2 THEN Raise("ValueError")
    ELSE Ok(S(SubSeq(day_offset_time_sting.v, 3, Len(day_offset_time_sting.v))))

\* day_offset_time_sting.split(".")[1], IndexError turned into ValueError
day_offset_to_simple_time(day_offset_time_sting) ==
    LET parts == SplitDot(day_offset_time_sting.v)
    IN  IF Len(parts) < 2 THEN Raise("ValueError") ELSE Ok(S(parts[2]))

\* datetime.strptime(s, "%d.%H:%M"): day of month 1..31, hour 0..23, minute
\* 0..59, each of one or two digits, and nothing else in the string
strptime(s) ==
    LET parts == SplitDot(s)
        hm == Split(parts[2], 58, <<>>)
        Field(x, lo, hi) == IsDigits(x) /\ Len(x) <= 2 /\ DigitsVal(x) \in lo..hi
    IN  IF Len(parts) = 2 /\ Len(hm) = 2 /\ Field(parts[1], 1, 31)
           /\ Field(hm[1], 0, 23) /\ Field(hm[2], 0, 59)
        THEN Ok([d |-> DigitsVal(parts[1]), H |-> DigitsVal(hm[1]),
                 M |-> DigitsVal(hm[2])])
        ELSE Raise("ValueError")

calculate_duration_in_minutes(start_time, end_time) ==
    LET sp == SplitDot(start_time.v)
        ep == SplitDot(end_time.v)
    IN  IF Len(sp) # 2 \/ Len(ep) # 2 THEN Raise("ValueError")
        ELSE IF ~IsDigits(sp[1]) \/ ~IsDigits(ep[1]) THEN Raise("ValueError")
        ELSE
          LET start_day == NatToStr(DigitsVal(sp[1]) + 1)
              end_day == NatToStr(DigitsVal(ep[1]) + 1)
              start_date == strptime(start_day \o <<46>> \o sp[2])
              end_date == strptime(end_day \o <<46>> \o ep[2])
          IN  IF start_date.exc # "none" THEN start_date
              ELSE IF end_date.exc # "none" THEN end_date
              ELSE Ok(((end_date.val.d - start_date.val.d) * 1440
                       + (end_date.val.H - start_date.val.H) * 60
                       + (end_date.val.M - start_date.val.M)))

\* ------------------------------------------------------------------------
\* src/src/reports_exporter.py : lookups
\* ------------------------------------------------------------------------
\* the values of ReportsExporter.fields_to_sort_by_id
fields_to_sort_by_id ==
    [duties |-> "duty_id", vehicles |-> "vehicle_id", trips |-> "trip_id",
     stops |-> "stop_id"]

SortedIdFields == {fields_to_sort_by_id[k] : k \in DOMAIN fields_to_sort_by_id}

\* the first object of the list whose key equals id_, 0 when there is none
RECURSIVE LinearSearch(_, _, _, _)
LinearSearch(objects, object_id_key, id_, i) ==
    IF i > Len(objects) THEN 0
    ELSE IF objects[i][object_id_key] = id_ THEN i
    ELSE LinearSearch(objects, object_id_key, id_, i + 1)

\* bisect.bisect_left(objects, id_, key=lambda x: x.get(object_id_key)),
\* as a 0-based insertion point
RECURSIVE bisect_left(_, _, _, _, _)
bisect_left(objects, object_id_key, id_, lo, hi) ==
    IF lo >= hi THEN Ok(lo)
    ELSE LET mid == (lo + hi) \div 2
             lt == PyLess(objects[mid + 1][object_id_key], id_)
         IN  IF lt.exc # "none" THEN lt
             ELSE IF lt.val THEN bisect_left(objects, object_id_key, id_, mid + 1, hi)
             ELSE bisect_left(objects, object_id_key, id_, lo, mid)

\* is_objects_sorted is "None", "True" or "False"
_get_object_by_id(objects, object_id_key, id_, is_objects_sorted) ==
    LET sorted == IF is_objects_sorted = "None"
                  THEN object_id_key \in SortedIdFields
                  ELSE is_objects_sorted = "True"
        found == IF sorted THEN 0 ELSE LinearSearch(objects, object_id_key, id_, 1)
        idx == bisect_left(objects, object_id_key, id_, 0, Len(objects))
    IN  IF found # 0 THEN Ok(objects[found])
        ELSE IF idx.exc # "none" THEN idx
        ELSE IF idx.val # Len(objects) /\ objects[idx.val + 1][object_id_key] = id_
             THEN Ok(objects[idx.val + 1])
        ELSE Raise("KeyError")

\* _get_vehicle_event_by_index behind the lookup of the vehicle: vehicle is
\* the result of that lookup
VehicleEventOf(vehicle, idx) ==
    IF vehicle.exc # "none" THEN vehicle
    ELSE
      LET vehicle_event == PyIndex(vehicle.val.vehicle_events, idx.v[1])
      IN  IF vehicle_event.exc # "none" THEN vehicle_event
          ELSE IF PyStr(vehicle_event.val.vehicle_event_sequence) # PyStr(idx)
               THEN _get_object_by_id(vehicle.val.vehicle_events,
                                      "vehicle_event_sequence", idx, "False")
          ELSE vehicle_event

_get_vehicle_event_by_index(raw_data, vehicle_id, idx) ==
    VehicleEventOf(_get_object_by_id(raw_data.vehicles, "vehicle_id", vehicle_id,
                                     "None"),
                   idx)

\* the key of the time asked for, in a duty or vehicle event and in a trip
TimeField(start_or_end) ==
    IF start_or_end = "start" THEN "start_time" ELSE "end_time"

TripTimeField(start_or_end) ==
    IF start_or_end = "start" THEN "departure_time" ELSE "arrival_time"

\* the time a resolution that dereferenced something ends with: obj is the
\* result of the last lookup
DereferencedTime(obj, field) ==
    IF obj.exc # "none"
    THEN [exc |-> obj.exc, val |-> None, dereferenced |-> TRUE]
    ELSE [exc |-> "none", val |-> obj.val[field], dereferenced |-> TRUE]

\* _get_duty_event_time behind the lookup of the vehicle event
VehicleEventTime(vehicle_event, raw_data, start_or_end) ==
    IF vehicle_event.exc # "none"
    THEN DereferencedTime(vehicle_event, TimeField(start_or_end))
    ELSE IF vehicle_event.val.vehicle_event_type # "service_trip"
    THEN DereferencedTime(vehicle_event, TimeField(start_or_end))
    ELSE DereferencedTime(_get_object_by_id(raw_data.trips, "trip_id",
                                            vehicle_event.val.trip_id, "None"),
                          TripTimeField(start_or_end))

\* _get_duty_event_time with the vehicle event's own field returned also for
\* a service trip
_get_duty_event_time_own_fields(duty_event, raw_data, start_or_end) ==
    IF duty_event.duty_event_type # "vehicle_event"
    THEN [exc |-> "none", val |-> duty_event[TimeField(start_or_end)],
          dereferenced |-> FALSE]
    ELSE DereferencedTime(_get_vehicle_event_by_index(raw_data,
                              duty_event.vehicle_id,
                              duty_event.vehicle_event_sequence),
                          TimeField(start_or_end))

\* _get_duty_event_time with the branch taken on the presence of a
\* vehicle_id instead of the type of the duty event
_get_duty_event_time_by_vehicle_id(duty_event, raw_data, start_or_end) ==
    IF duty_event.vehicle_id = None
    THEN [exc |-> "none", val |-> duty_event[TimeField(start_or_end)],
          dereferenced |-> FALSE]
    ELSE VehicleEventTime(_get_vehicle_event_by_index(raw_data,
                              duty_event.vehicle_id,
                              duty_event.vehicle_event_sequence),
                          raw_data, start_or_end)

\* the result also tells whether the resolution dereferenced anything, i.e.
\* reached a _get_object_by_id call
_get_duty_event_time(duty_event, raw_data, start_or_end) ==
    IF duty_event.duty_event_type # "vehicle_event"
    THEN [exc |-> "none", val |-> duty_event[TimeField(start_or_end)],
          dereferenced |-> FALSE]
    ELSE VehicleEventTime(_get_vehicle_event_by_index(raw_data,
                              duty_event.vehicle_id,
                              duty_event.vehicle_event_sequence),
                          raw_data, start_or_end)

\* ------------------------------------------------------------------------
\* src/src/reports_exporter.py : timeline and breaks
\* ------------------------------------------------------------------------
B(b) == [t |-> "bool", v |-> <<IF b THEN 1 ELSE 0>>]

\* a list built element by element: h is the result of computing its first
\* element, r the result of computing the elements behind it; the first
\* exception leaves the computation
Prepend(h, r) ==
    IF h.exc # "none" THEN h
    ELSE IF r.exc # "none" THEN r
    ELSE Ok(<<h.val>> \o r.val)

\* list.extend: h is the result of computing the elements added first
Extend(h, r) ==
    IF h.exc # "none" THEN h
    ELSE IF r.exc # "none" THEN r
    ELSE Ok(h.val \o r.val)

\* the duty event filled from the trip with the arrival as start and the
\* departure as end
PopulateFromTrip_arrival_first(duty_event, trip) ==
    IF trip.exc # "none" THEN trip
    ELSE Ok([duty_event EXCEPT
               !.start_time = trip.val.arrival_time,
               !.end_time = trip.val.departure_time,
               !.origin_stop_id = trip.val.origin_stop_id,
               !.destination_stop_id = trip.val.destination_stop_id,
               !.is_break_type = B(FALSE)])

\* the duty event filled from the trip and flagged as a break
PopulateFromTrip_flagged(duty_event, trip) ==
    IF trip.exc # "none" THEN trip
    ELSE Ok([duty_event EXCEPT
               !.start_time = trip.val.departure_time,
               !.end_time = trip.val.arrival_time,
               !.origin_stop_id = trip.val.origin_stop_id,
               !.destination_stop_id = trip.val.destination_stop_id,
               !.is_break_type = B(TRUE)])

\* the duty event filled from the trip of a service_trip vehicle event
PopulateFromTrip(duty_event, trip) ==
    IF trip.exc # "none" THEN trip
    ELSE Ok([duty_event EXCEPT
               !.start_time = trip.val.departure_time,
               !.end_time = trip.val.arrival_time,
               !.origin_stop_id = trip.val.origin_stop_id,
               !.destination_stop_id = trip.val.destination_stop_id,
               !.is_break_type = B(FALSE)])

\* the duty event filled from its vehicle event
PopulateFromVehicleEvent(raw_data, duty_event, vehicle_event, explicit_break_event_types) ==
    IF vehicle_event.exc # "none" THEN vehicle_event
    ELSE IF vehicle_event.val.vehicle_event_type # "service_trip"
    THEN Ok([duty_event EXCEPT
               !.start_time = vehicle_event.val.start_time,
               !.end_time = vehicle_event.val.end_time,
               !.origin_stop_id = vehicle_event.val.origin_stop_id,
               !.destination_stop_id = vehicle_event.val.destination_stop_id,
               !.is_break_type = B(vehicle_event.val.vehicle_event_type
                                     \in explicit_break_event_types)])
    ELSE PopulateFromTrip(duty_event,
                          _get_object_by_id(raw_data.trips, "trip_id",
                                            vehicle_event.val.trip_id, "None"))

\* the body of the loop of _populate_duty_events_with_details for one copied
\* duty event
PopulateDutyEvent(raw_data, duty_event, explicit_break_event_types) ==
    IF duty_event.duty_event_type # "vehicle_event"
    THEN Ok([duty_event EXCEPT
               !.is_break_type = B(duty_event.duty_event_type
                                     \in explicit_break_event_types)])
    ELSE PopulateFromVehicleEvent(raw_data, duty_event,
                                  _get_vehicle_event_by_index(raw_data,
                                      duty_event.vehicle_id,
                                      duty_event.vehicle_event_sequence),
                                  explicit_break_event_types)

RECURSIVE PopulateDutyEvents(_, _, _)
PopulateDutyEvents(raw_data, duty_events, explicit_break_event_types) ==
    IF duty_events = <<>> THEN Ok(<<>>)
    ELSE Prepend(PopulateDutyEvent(raw_data, Head(duty_events),
                                   explicit_break_event_types),
                 PopulateDutyEvents(raw_data, Tail(duty_events),
                                    explicit_break_event_types))

\* _populate_duty_events_with_details behind the lookup of the duty
PopulateDutyEventsOf(raw_data, duty, explicit_break_event_types) ==
    IF duty.exc # "none" THEN duty
    ELSE PopulateDutyEvents(raw_data, duty.val.duty_events,
                            explicit_break_event_types)

_populate_duty_events_with_details(raw_data, duty_id, explicit_break_event_types) ==
    PopulateDutyEventsOf(raw_data,
                         _get_object_by_id(raw_data.duties, "duty_id", duty_id,
                                           "None"),
                         explicit_break_event_types)

\* raw_data behind a call that assigns to the very events of the duty:
\* duty_events is the result of the loop
RawDataBehindPopulate_in_place(raw_data, duty_id, duty_events) ==
    IF duty_events.exc # "none" THEN raw_data
    ELSE [raw_data EXCEPT !.duties =
             [d \in 1..Len(raw_data.duties) |->
                 IF raw_data.duties[d].duty_id = duty_id
                 THEN [raw_data.duties[d] EXCEPT !.duty_events = duty_events.val]
                 ELSE raw_data.duties[d]]]

\* raw_data behind _populate_duty_events_with_details: the loop assigns to
\* the events of copy.deepcopy(duty["duty_events"]) only, and the vehicle
\* events, trips and stops are read, so raw_data is what it was;
\* duty_events is the result of the loop
RawDataBehindPopulate(raw_data, duty_id, duty_events) ==
    raw_data

\* the raw break tuple (start time, duration, stop id): duration is the
\* result of calculate_duration_in_minutes
RawBreak(start_time, duration, location) ==
    IF duration.exc # "none" THEN duration
    ELSE Ok([start_time |-> start_time, duration |-> duration.val,
             location |-> location])

\* the list comprehension that builds explicit_breaks with the end of the
\* event taken as the start of its break
RECURSIVE ExplicitBreaks_end_time(_)
ExplicitBreaks_end_time(duty_events) ==
    IF duty_events = <<>> THEN Ok(<<>>)
    ELSE IF Head(duty_events).is_break_type # B(TRUE)
    THEN ExplicitBreaks_end_time(Tail(duty_events))
    ELSE Prepend(RawBreak(Head(duty_events).end_time,
                          calculate_duration_in_minutes(
                              Head(duty_events).start_time,
                              Head(duty_events).end_time),
                          Head(duty_events).destination_stop_id),
                 ExplicitBreaks_end_time(Tail(duty_events)))

\* the list comprehension that builds explicit_breaks with the stop the
\* event starts at as location
RECURSIVE ExplicitBreaks_origin(_)
ExplicitBreaks_origin(duty_events) ==
    IF duty_events = <<>> THEN Ok(<<>>)
    ELSE IF Head(duty_events).is_break_type # B(TRUE)
    THEN ExplicitBreaks_origin(Tail(duty_events))
    ELSE Prepend(RawBreak(Head(duty_events).start_time,
                          calculate_duration_in_minutes(
                              Head(duty_events).start_time,
                              Head(duty_events).end_time),
                          Head(duty_events).origin_stop_id),
                 ExplicitBreaks_origin(Tail(duty_events)))

\* the list comprehension that builds explicit_breaks
RECURSIVE ExplicitBreaks(_)
ExplicitBreaks(duty_events) ==
    IF duty_events = <<>> THEN Ok(<<>>)
    ELSE IF Head(duty_events).is_break_type # B(TRUE)
    THEN ExplicitBreaks(Tail(duty_events))
    ELSE Prepend(RawBreak(Head(duty_events).start_time,
                          calculate_duration_in_minutes(
                              Head(duty_events).start_time,
                              Head(duty_events).end_time),
                          Head(duty_events).destination_stop_id),
                 ExplicitBreaks(Tail(duty_events)))

\* the loop that builds implicit_breaks with the location taken from the
\* current event instead of the previous one
RECURSIVE ImplicitBreaks_curr_location(_, _)
ImplicitBreaks_curr_location(duty_events, i) ==
    IF i >= Len(duty_events) THEN Ok(<<>>)
    ELSE IF duty_events[i].end_time = duty_events[i + 1].start_time
    THEN ImplicitBreaks_curr_location(duty_events, i + 1)
    ELSE Prepend(RawBreak(duty_events[i].end_time,
                          calculate_duration_in_minutes(
                              duty_events[i].end_time,
                              duty_events[i + 1].start_time),
                          duty_events[i + 1].destination_stop_id),
                 ImplicitBreaks_curr_location(duty_events, i + 1))

\* the loop that builds implicit_breaks, from index i on: duty_events[i] is
\* prev_event, duty_events[i + 1] is curr_event
RECURSIVE ImplicitBreaks(_, _)
ImplicitBreaks(duty_events, i) ==
    IF i >= Len(duty_events) THEN Ok(<<>>)
    ELSE IF duty_events[i].end_time = duty_events[i + 1].start_time
    THEN ImplicitBreaks(duty_events, i + 1)
    ELSE Prepend(RawBreak(duty_events[i].end_time,
                          calculate_duration_in_minutes(
                              duty_events[i].end_time,
                              duty_events[i + 1].start_time),
                          duty_events[i].destination_stop_id),
                 ImplicitBreaks(duty_events, i + 1))

\* the tuple _transform_raw_breaks makes of one raw break: simple is the
\* result of day_offset_to_simple_time, stop of the lookup of the stop
TransformedBreak(break_, simple, stop) ==
    IF simple.exc # "none" THEN simple
    ELSE IF stop.exc # "none" THEN stop
    ELSE Ok([start_time |-> simple.val, duration |-> break_.duration,
             stop_name |-> stop.val.stop_name])

\* _transform_raw_breaks keeping only the breaks longer than the threshold
RECURSIVE _transform_raw_breaks_longer(_, _, _)
_transform_raw_breaks_longer(raw_data, raw_breaks, min_duration_mins) ==
    IF raw_breaks = <<>> THEN Ok(<<>>)
    ELSE IF ~(Head(raw_breaks).duration > min_duration_mins)
    THEN _transform_raw_breaks_longer(raw_data, Tail(raw_breaks), min_duration_mins)
    ELSE Prepend(TransformedBreak(Head(raw_breaks),
                     day_offset_to_simple_time(Head(raw_breaks).start_time),
                     _get_object_by_id(raw_data.stops, "stop_id",
                                       Head(raw_breaks).location, "None")),
                 _transform_raw_breaks_longer(raw_data, Tail(raw_breaks),
                                              min_duration_mins))

\* _calculate_breaks._transform_raw_breaks
RECURSIVE _transform_raw_breaks(_, _, _)
_transform_raw_breaks(raw_data, raw_breaks, min_duration_mins) ==
    IF raw_breaks = <<>> THEN Ok(<<>>)
    ELSE IF ~(Head(raw_breaks).duration >= min_duration_mins)
    THEN _transform_raw_breaks(raw_data, Tail(raw_breaks), min_duration_mins)
    ELSE Prepend(TransformedBreak(Head(raw_breaks),
                     day_offset_to_simple_time(Head(raw_breaks).start_time),
                     _get_object_by_id(raw_data.stops, "stop_id",
                                       Head(raw_breaks).location, "None")),
                 _transform_raw_breaks(raw_data, Tail(raw_breaks),
                                       min_duration_mins))

\* the result of _calculate_breaks also carries the lists the call built on
\* its way: the resolved duty events, the explicit and the implicit breaks
\* and the sorted raw breaks; left names the statement an exception left the
\* call from, and the lists behind that statement are empty
BreaksResult(e, at, v, evs, ex, im, so) ==
    [exc |-> e, left |-> at, val |-> v, duty_events |-> evs,
     explicit_breaks |-> ex, implicit_breaks |-> im, raw_breaks |-> so]

\* the return statement: out is the result of _transform_raw_breaks
TransformedBreaks(duty_events, explicit_breaks, implicit_breaks, raw_breaks, out) ==
    IF out.exc # "none"
    THEN BreaksResult(out.exc, "return", <<>>, duty_events, explicit_breaks,
                      implicit_breaks, raw_breaks)
    ELSE BreaksResult("none", "return", out.val, duty_events, explicit_breaks,
                      implicit_breaks, raw_breaks)

\* sorted(explicit_breaks + implicit_breaks, key=lambda x: x[0]) as raw_breaks
SortedBreaks(raw_data, duty_events, explicit_breaks, implicit_breaks, raw_breaks, min_duration_mins) ==
    TransformedBreaks(duty_events, explicit_breaks, implicit_breaks, raw_breaks,
                      _transform_raw_breaks(raw_data, raw_breaks,
                                            min_duration_mins))

\* explicit_breaks and implicit_breaks are the results of the two loops
CollectedBreaks(raw_data, duty_events, explicit_breaks, implicit_breaks, min_duration_mins) ==
    IF explicit_breaks.exc # "none"
    THEN BreaksResult(explicit_breaks.exc, "explicit_breaks", <<>>, duty_events,
                      <<>>, <<>>, <<>>)
    ELSE IF implicit_breaks.exc # "none"
    THEN BreaksResult(implicit_breaks.exc, "implicit_breaks", <<>>, duty_events,
                      explicit_breaks.val, <<>>, <<>>)
    ELSE SortedBreaks(raw_data, duty_events, explicit_breaks.val,
                      implicit_breaks.val,
                      SortByField(explicit_breaks.val \o implicit_breaks.val,
                                  "start_time"),
                      min_duration_mins)

\* duty_events is the result of _populate_duty_events_with_details
BreaksOfDutyEvents(raw_data, duty_events, min_duration_mins) ==
    IF duty_events.exc # "none"
    THEN BreaksResult(duty_events.exc, "duty_events", <<>>, <<>>, <<>>, <<>>, <<>>)
    ELSE CollectedBreaks(raw_data, duty_events.val, ExplicitBreaks(duty_events.val),
                         ImplicitBreaks(duty_events.val, 1), min_duration_mins)

_calculate_breaks(raw_data, duty_id, min_duration_mins, explicit_break_event_types) ==
    BreaksOfDutyEvents(raw_data,
                       _populate_duty_events_with_details(raw_data, duty_id,
                           explicit_break_event_types),
                       min_duration_mins)

\* ------------------------------------------------------------------------
\* src/src/schemas.py and _validate_json_data
\* ------------------------------------------------------------------------
IsStr(x) == x.t = "str"
IsInt(x) == x.t = "int"

\* DAY_OFFSET_TIME_TYPE_VALIDATION: a str matching ^\d{1,2}\.\d{2}(:\d{2})?$
DAY_OFFSET_TIME_TYPE_VALIDATION(x) ==
    /\ IsStr(x)
    /\ LET parts == SplitDot(x.v)
           hm == Split(parts[2], 58, <<>>)
           TwoDigits(y) == IsDigits(y) /\ Len(y) = 2
       IN  /\ Len(parts) = 2
           /\ IsDigits(parts[1]) /\ Len(parts[1]) \in 1..2
           /\ Len(hm) \in 1..2
           /\ \A i \in 1..Len(hm) : TwoDigits(hm[i])

\* the items of DUTIES_SCHEMA: exactly one of the two shapes
DutyEventValid(e) ==
    \/ /\ e.duty_event_type = "vehicle_event"
       /\ IsInt(e.vehicle_event_sequence)
       /\ IsStr(e.vehicle_id)
    \/ /\ e.duty_event_type \in {"taxi", "sign_on"}
       /\ DAY_OFFSET_TIME_TYPE_VALIDATION(e.start_time)
       /\ DAY_OFFSET_TIME_TYPE_VALIDATION(e.end_time)
       /\ IsStr(e.origin_stop_id)
       /\ IsStr(e.destination_stop_id)

DUTIES_SCHEMA(duties) ==
    \A i \in 1..Len(duties) :
        /\ IsStr(duties[i].duty_id)
        /\ \A j \in 1..Len(duties[i].duty_events) :
               DutyEventValid(duties[i].duty_events[j])

VehicleEventValid(e) ==
    \/ /\ IsStr(e.vehicle_event_sequence)
       /\ e.vehicle_event_type \in {"attendance", "deadhead", "depot_pull_in",
                                     "depot_pull_out", "pre_trip"}
       /\ DAY_OFFSET_TIME_TYPE_VALIDATION(e.start_time)
       /\ DAY_OFFSET_TIME_TYPE_VALIDATION(e.end_time)
       /\ IsStr(e.origin_stop_id)
       /\ IsStr(e.destination_stop_id)
       /\ IsStr(e.duty_id)
    \/ /\ IsStr(e.vehicle_event_sequence)
       /\ e.vehicle_event_type = "service_trip"
       /\ IsStr(e.trip_id)
       /\ IsStr(e.duty_id)

VEHICLES_SCHEMA(vehicles) ==
    \A i \in 1..Len(vehicles) :
        /\ IsStr(vehicles[i].vehicle_id)
        /\ \A j \in 1..Len(vehicles[i].vehicle_events) :
               VehicleEventValid(vehicles[i].vehicle_events[j])

TRIPS_SCHEMA(trips) ==
    \A i \in 1..Len(trips) :
        /\ IsStr(trips[i].trip_id)
        /\ IsStr(trips[i].origin_stop_id)
        /\ IsStr(trips[i].destination_stop_id)
        /\ DAY_OFFSET_TIME_TYPE_VALIDATION(trips[i].departure_time)
        /\ DAY_OFFSET_TIME_TYPE_VALIDATION(trips[i].arrival_time)

STOPS_SCHEMA(stops) ==
    \A i \in 1..Len(stops) : IsStr(stops[i].stop_id) /\ IsStr(stops[i].stop_name)

DRIVERS_SCHEDULE_SCHEMA(json_data) ==
    /\ DUTIES_SCHEMA(json_data.duties)
    /\ VEHICLES_SCHEMA(json_data.vehicles)
    /\ TRIPS_SCHEMA(json_data.trips)
    /\ STOPS_SCHEMA(json_data.stops)

\* some id occurs more than once in the collection
HasRepeatedId(objects, obj_id_field) ==
    \E i, j \in 1..Len(objects) :
        i < j /\ objects[i][obj_id_field] = objects[j][obj_id_field]

\* validate(), then the repeated-id pass: set(items_with_same_id) is a set of
\* dicts, which Python cannot hash
_validate_json_data(json_data) ==
    IF ~DRIVERS_SCHEDULE_SCHEMA(json_data) THEN Raise("ValidationError")
    ELSE IF \E obj_type \in DOMAIN fields_to_sort_by_id :
               HasRepeatedId(json_data[obj_type], fields_to_sort_by_id[obj_type])
    THEN Raise("TypeError")
    ELSE Ok(None)

_sort_all_raw_data_list(raw_data) ==
    [key \in DOMAIN raw_data |->
        IF key \in DOMAIN fields_to_sort_by_id
        THEN SortByField(raw_data[key], fields_to_sort_by_id[key])
        ELSE raw_data[key]]

\* ------------------------------------------------------------------------
\* src/src/reports_exporter.py : the three report operations
\* ------------------------------------------------------------------------
\* a report loop: h is the result of the body for one duty, r the result of
\* the loop for the duties behind it; a KeyError skips the duty, any other
\* exception leaves the operation
SkipOrPrepend(h, r) ==
    IF h.exc = "KeyError" THEN r ELSE Prepend(h, r)

\* the row appended to the step 1 report: the two arguments are the results
\* of day_offset_to_simple_time
SimpleTimesRow(duty_id, simple_start, simple_end) ==
    IF simple_start.exc # "none" THEN simple_start
    ELSE IF simple_end.exc # "none" THEN simple_end
    ELSE Ok([duty_id |-> duty_id, start_time |-> simple_start.val,
             end_time |-> simple_end.val])

\* duty_start_time and duty_end_time are the results of _get_duty_event_time
TimesRowOf(duty_id, duty_start_time, duty_end_time) ==
    IF duty_start_time.exc # "none" THEN Raise(duty_start_time.exc)
    ELSE IF duty_end_time.exc # "none" THEN Raise(duty_end_time.exc)
    ELSE SimpleTimesRow(duty_id, day_offset_to_simple_time(duty_start_time.val),
                        day_offset_to_simple_time(duty_end_time.val))

\* first and last are the results of duty_events[0] and duty_events[-1]
TimesRowBetween(raw_data, duty_id, first, last) ==
    IF first.exc # "none" THEN Raise(first.exc)
    ELSE TimesRowOf(duty_id, _get_duty_event_time(first.val, raw_data, "start"),
                    _get_duty_event_time(last.val, raw_data, "end"))

\* the loop of generate_duty_start_end_times_report with the events of a
\* duty put in the order of their start_time before the first and the last
\* are taken
RECURSIVE TimesRows_time_ordered(_, _)
TimesRows_time_ordered(raw_data, duties) ==
    IF duties = <<>> THEN Ok(<<>>)
    ELSE SkipOrPrepend(
             TimesRowBetween(raw_data, Head(duties).duty_id,
                 PyIndex(SortByField(Head(duties).duty_events, "start_time"), 0),
                 PyIndex(SortByField(Head(duties).duty_events, "start_time"), -1)),
             TimesRows_time_ordered(raw_data, Tail(duties)))

\* the loop over raw_data["duties"] of generate_duty_start_end_times_report
RECURSIVE TimesRows(_, _)
TimesRows(raw_data, duties) ==
    IF duties = <<>> THEN Ok(<<>>)
    ELSE SkipOrPrepend(
             TimesRowBetween(raw_data, Head(duties).duty_id,
                             PyIndex(Head(duties).duty_events, 0),
                             PyIndex(Head(duties).duty_events, -1)),
             TimesRows(raw_data, Tail(duties)))

\* what a report operation returns: rows is the result of its loop, raw_data
\* the dataset as the call leaves it
ReportOf(rows, raw_data) ==
    [exc |-> rows.exc,
     val |-> IF rows.exc = "none" THEN rows.val ELSE <<>>,
     raw_data |-> raw_data]

\* generate_duty_start_end_times_report without the call of
\* _sort_all_raw_data_list
TimesReport_as_loaded(raw_data, valid, sorted) ==
    IF valid.exc # "none"
    THEN [exc |-> valid.exc, val |-> <<>>, raw_data |-> raw_data]
    ELSE ReportOf(TimesRows(raw_data, raw_data.duties), raw_data)

\* valid is the result of _validate_json_data, sorted the dataset behind
\* _sort_all_raw_data_list
TimesReport(raw_data, valid, sorted) ==
    IF valid.exc # "none"
    THEN [exc |-> valid.exc, val |-> <<>>, raw_data |-> raw_data]
    ELSE ReportOf(TimesRows(sorted, sorted.duties), sorted)

\* Step 1.  The result carries raw_data as the call leaves it (sorted in
\* place once the validation has passed).
generate_duty_start_end_times_report(raw_data) ==
    TimesReport(raw_data, _validate_json_data(raw_data),
                _sort_all_raw_data_list(raw_data))

\* more_itertools.unique_everseen
RECURSIVE unique_everseen(_, _)
unique_everseen(seq, seen) ==
    IF seq = <<>> THEN <<>>
    ELSE IF Head(seq) \in seen THEN unique_everseen(Tail(seq), seen)
    ELSE <<Head(seq)>> \o unique_everseen(Tail(seq), seen \cup {Head(seq)})

\* the trip ids one vehicle contributes to _get_relevant_service_trips
RECURSIVE ServiceTripIdsOf(_, _)
ServiceTripIdsOf(vehicle_events, duty_id) ==
    IF vehicle_events = <<>> THEN <<>>
    ELSE IF Head(vehicle_events).vehicle_event_type = "service_trip"
            /\ Head(vehicle_events).duty_id = duty_id
    THEN <<Head(vehicle_events).trip_id>>
         \o ServiceTripIdsOf(Tail(vehicle_events), duty_id)
    ELSE ServiceTripIdsOf(Tail(vehicle_events), duty_id)

\* vehicle is the result of the lookup of one vehicle of the duty
ServiceTripIdsOfVehicle(vehicle, duty_id) ==
    IF vehicle.exc # "none" THEN vehicle
    ELSE Ok(ServiceTripIdsOf(vehicle.val.vehicle_events, duty_id))

RECURSIVE _get_relevant_service_trips(_, _, _)
_get_relevant_service_trips(raw_data, duty_id, duty_vehicle_ids) ==
    IF duty_vehicle_ids = <<>> THEN Ok(<<>>)
    ELSE Extend(ServiceTripIdsOfVehicle(
                    _get_object_by_id(raw_data.vehicles, "vehicle_id",
                                      Head(duty_vehicle_ids), "True"),
                    duty_id),
                _get_relevant_service_trips(raw_data, duty_id,
                                            Tail(duty_vehicle_ids)))

\* stop is the result of the lookup of the stop
StopNameOf(stop) ==
    IF stop.exc # "none" THEN stop ELSE Ok(stop.val.stop_name)

\* trip is the result of the lookup of the trip
StopNameOfTrip(raw_data, trip, origin_or_destination) ==
    IF trip.exc # "none" THEN trip
    ELSE StopNameOf(_get_object_by_id(raw_data.stops, "stop_id",
                                      trip.val[origin_or_destination], "None"))

_get_stop_name_from_trip_id(raw_data, trip_id, origin_or_destination) ==
    StopNameOfTrip(raw_data,
                   _get_object_by_id(raw_data.trips, "trip_id", trip_id, "None"),
                   origin_or_destination)

\* the vehicle ids of the vehicle_event duty events, in event order
RECURSIVE VehicleIdsOf(_)
VehicleIdsOf(duty_events) ==
    IF duty_events = <<>> THEN <<>>
    ELSE IF Head(duty_events).duty_event_type = "vehicle_event"
         THEN <<Head(duty_events).vehicle_id>> \o VehicleIdsOf(Tail(duty_events))
         ELSE VehicleIdsOf(Tail(duty_events))

\* the two assignments to the row: start and end are the results of
\* _get_stop_name_from_trip_id
RowWithStops(row, start, end) ==
    IF start.exc # "none" THEN [exc |-> start.exc, val |-> row]
    ELSE IF end.exc # "none"
    THEN [exc |-> end.exc,
          val |-> [row EXCEPT !.start_stop_description = start.val]]
    ELSE [exc |-> "none",
          val |-> [row EXCEPT !.start_stop_description = start.val,
                              !.end_stop_description = end.val]]

\* service_trip_ids is the result of _get_relevant_service_trips
StopsOfServiceTrips(raw_data, service_trip_ids, row) ==
    IF service_trip_ids.exc # "none"
    THEN [exc |-> service_trip_ids.exc, val |-> row]
    ELSE IF service_trip_ids.val = <<>> THEN [exc |-> "none", val |-> row]
    ELSE RowWithStops(row,
             _get_stop_name_from_trip_id(raw_data, service_trip_ids.val[1],
                                         "origin_stop_id"),
             _get_stop_name_from_trip_id(raw_data,
                 service_trip_ids.val[Len(service_trip_ids.val)],
                 "destination_stop_id"))

\* duty is the result of the lookup of the duty
StopsOfDuty(raw_data, duty_id, duty, row) ==
    IF duty.exc # "none" THEN [exc |-> duty.exc, val |-> row]
    ELSE StopsOfServiceTrips(raw_data,
             _get_relevant_service_trips(raw_data, duty_id,
                 unique_everseen(VehicleIdsOf(duty.val.duty_events), {})),
             row)

\* val is the report row as the call leaves it, also when it leaves with an
\* exception after having written the start stop
_process_duty_start_and_end_stops(raw_data, duty_id, row) ==
    StopsOfDuty(raw_data, duty_id,
                _get_object_by_id(raw_data.duties, "duty_id", duty_id, "None"),
                row)

\* the body of the loop over the rows of the step 1 report: a KeyError
\* leaves the row as the call left it
StopsRow(row) ==
    IF row.exc \notin {"none", "KeyError"} THEN Raise(row.exc) ELSE Ok(row.val)

\* the loop over the rows of the step 1 report
RECURSIVE StopsRows(_, _)
StopsRows(raw_data, report) ==
    IF report = <<>> THEN Ok(<<>>)
    ELSE Prepend(StopsRow(_process_duty_start_and_end_stops(raw_data,
                              Head(report).duty_id, Head(report))),
                 StopsRows(raw_data, Tail(report)))

\* DataFrame.dropna(subset=[...], how="any"): drops the rows holding a
\* missing value (None/NaN) in one of the two columns
dropna(report) ==
    SelectSeq(report, LAMBDA row : row.start_stop_description.t # "none"
                                   /\ row.end_stop_description.t # "none")

\* the step 1 rows with the two stop columns set to ""
WithStopColumns(report) ==
    [i \in 1..Len(report) |->
        [duty_id |-> report[i].duty_id,
         start_time |-> report[i].start_time,
         end_time |-> report[i].end_time,
         start_stop_description |-> S(<<>>),
         end_stop_description |-> S(<<>>)]]

\* rows is the result of the loop over the rows
DroppedNa(rows) ==
    IF rows.exc # "none" THEN rows ELSE Ok(dropna(rows.val))

\* report is the result of generate_duty_start_end_times_report
StopsReport(report) ==
    IF report.exc # "none" THEN report
    ELSE ReportOf(DroppedNa(StopsRows(report.raw_data, WithStopColumns(report.val))),
                  report.raw_data)

\* Step 2
generate_duty_start_end_times_and_stops_report(raw_data) ==
    StopsReport(generate_duty_start_end_times_report(raw_data))

\* the rows one duty contributes to the step 3 report
BreakRowsOf(row, breaks) ==
    [i \in 1..Len(breaks) |->
        [duty_id |-> row.duty_id, start_time |-> row.start_time,
         end_time |-> row.end_time,
         start_stop_description |-> row.start_stop_description,
         end_stop_description |-> row.end_stop_description,
         break_start_time |-> breaks[i].start_time,
         break_duration |-> breaks[i].duration,
         break_stop_name |-> breaks[i].stop_name]]

\* the body of the loop over the rows of the step 2 report: breaks is the
\* result of _calculate_breaks
BreakRows(row, breaks) ==
    IF breaks.exc # "none" THEN Raise(breaks.exc)
    ELSE Ok(BreakRowsOf(row, breaks.val))

\* a report loop whose body adds several rows
SkipOrExtend(h, r) ==
    IF h.exc = "KeyError" THEN r ELSE Extend(h, r)

\* the loop over the rows of the step 2 report
RECURSIVE BreaksRows(_, _, _, _)
BreaksRows(raw_data, report, min_duration_mins, explicit_break_event_types) ==
    IF report = <<>> THEN Ok(<<>>)
    ELSE SkipOrExtend(
             BreakRows(Head(report),
                       _calculate_breaks(raw_data, Head(report).duty_id,
                           min_duration_mins, explicit_break_event_types)),
             BreaksRows(raw_data, Tail(report), min_duration_mins,
                        explicit_break_event_types))

\* unique_duty_ids_report is the result of
\* generate_duty_start_end_times_and_stops_report
BreaksReport(unique_duty_ids_report, min_duration_mins, explicit_break_event_types) ==
    IF unique_duty_ids_report.exc # "none" THEN unique_duty_ids_report
    ELSE ReportOf(BreaksRows(unique_duty_ids_report.raw_data,
                             unique_duty_ids_report.val, min_duration_mins,
                             explicit_break_event_types),
                  unique_duty_ids_report.raw_data)

\* Step 3
generate_duty_breaks_report(raw_data, min_duration_mins, explicit_break_event_types) ==
    BreaksReport(generate_duty_start_end_times_and_stops_report(raw_data),
                 min_duration_mins, explicit_break_event_types)

\* ------------------------------------------------------------------------
\* Datasets
\* ------------------------------------------------------------------------
\* the str of a number, and the one- or two-letter stop names
Id(n) == S(NatToStr(n))
NameA == S(<<65>>)
NameB == S(<<66>>)

TwoDigits(n) == <<48 + (n \div 10), 48 + (n % 10)>>

\* "<d>.<HH>:<MM>" and "<d>.<HH>", the two shapes the time pattern admits
T(d, h, m) == S(NatToStr(d) \o <<46>> \o TwoDigits(h) \o <<58>> \o TwoDigits(m))
THourOnly(d, h) == S(NatToStr(d) \o <<46>> \o TwoDigits(h))

Stop(id, name) == [stop_id |-> id, stop_name |-> name]

Trip(id, dep, arr, o, d) ==
    [trip_id |-> id, departure_time |-> dep, arrival_time |-> arr,
     origin_stop_id |-> o, destination_stop_id |-> d]

\* a vehicle event of one of the five kinds that carry their own times
OwnVehicleEvent(label, type, st, et, o, d, duty) ==
    [vehicle_event_sequence |-> label, vehicle_event_type |-> type,
     start_time |-> st, end_time |-> et, origin_stop_id |-> o,
     destination_stop_id |-> d, trip_id |-> None, duty_id |-> duty]

\* a service_trip vehicle event; st and et are fields the schema does not
\* ask for and does not forbid
ServiceTripEvent(label, trip, st, et, duty) ==
    [vehicle_event_sequence |-> label, vehicle_event_type |-> "service_trip",
     start_time |-> st, end_time |-> et, origin_stop_id |-> None,
     destination_stop_id |-> None, trip_id |-> trip, duty_id |-> duty]

Vehicle(id, events) == [vehicle_id |-> id, vehicle_events |-> events]

\* a taxi or sign_on duty event; vid and seq are fields the schema does not
\* ask for and does not forbid
OwnDutyEvent(type, st, et, o, d, vid, seq) ==
    [duty_event_type |-> type, vehicle_id |-> vid, vehicle_event_sequence |-> seq,
     start_time |-> st, end_time |-> et, origin_stop_id |-> o,
     destination_stop_id |-> d, is_break_type |-> None]

VehicleDutyEvent(vid, seq) ==
    [duty_event_type |-> "vehicle_event", vehicle_id |-> vid,
     vehicle_event_sequence |-> I(seq), start_time |-> None, end_time |-> None,
     origin_stop_id |-> None, destination_stop_id |-> None,
     is_break_type |-> None]

Duty(id, events) == [duty_id |-> id, duty_events |-> events]

Stops == <<Stop(Id(2), NameB), Stop(Id(1), NameA)>>

Trips ==
    <<Trip(Id(2), T(0, 9, 0), T(0, 9, 30), Id(2), Id(1)),
      Trip(Id(1), T(0, 7, 0), T(0, 8, 0), Id(1), Id(2))>>

\* the three events of vehicle "1", labelled by Label(0), Label(1), Label(2)
PullOut(Label(_)) ==
    OwnVehicleEvent(Label(0), "depot_pull_out", T(0, 6, 30), T(0, 6, 45),
                    Id(1), Id(1), Id(2))
Service(Label(_)) ==
    ServiceTripEvent(Label(1), Id(1), T(0, 1, 0), T(0, 2, 0), Id(2))
Attendance(Label(_)) ==
    OwnVehicleEvent(Label(2), "attendance", T(0, 8, 0), T(0, 8, 30),
                    Id(2), Id(2), Id(2))

Vehicle2 == Vehicle(Id(2), <<ServiceTripEvent(Id(0), Id(2), None, None, Id(10))>>)

\* the kinds of vehicle collection: labels equal to the positions, two
\* labels exchanged, the same with int labels (as in the doctests; the
\* schema asks for str), and no vehicle and no trip at all
VehicleKinds == {"aligned", "exchanged", "int_labels", "empty"}

VehiclesOf(kind) ==
    CASE kind = "aligned" ->
           <<Vehicle2,
             Vehicle(Id(1), <<PullOut(Id), Service(Id), Attendance(Id)>>)>>
      [] kind = "exchanged" ->
           <<Vehicle2,
             Vehicle(Id(1), <<Service(Id), PullOut(Id), Attendance(Id)>>)>>
      [] kind = "int_labels" ->
           <<Vehicle(Id(1), <<Service(I), PullOut(I), Attendance(I)>>),
             Vehicle2>>
      [] kind = "empty" -> <<>>

TripsOf(kind) ==
    CASE kind = "empty" -> <<>>
      [] kind = "int_labels" -> <<Trips[2], Trips[1]>>
      [] OTHER -> Trips

\* the duty every dataset holds: a sign-on, then the service trip of
\* vehicle "2"
FixedDuty ==
    Duty(Id(10), <<OwnDutyEvent("sign_on", T(0, 5, 0), T(0, 5, 30), Id(1), Id(1),
                                None, None),
                   VehicleDutyEvent(Id(2), 0)>>)

\* duty events whose references are in question: "9" names no vehicle and
\* 5 is no position of vehicle "1"
ReferenceEvents ==
    {OwnDutyEvent("sign_on", T(0, 5, 30), T(0, 6, 0), Id(1), Id(1), Id(9), I(0)),
     VehicleDutyEvent(Id(1), 0),
     VehicleDutyEvent(Id(1), 1),
     VehicleDutyEvent(Id(9), 0),
     VehicleDutyEvent(Id(1), 5)}

\* duty events whose times are in question: a time without minutes, times
\* on the days 9 and 10, and a sign-on of 15 minutes, 16 minutes after the
\* end of the taxi ride, that ends at a stop "7" the dataset does not hold
TimeEvents ==
    {OwnDutyEvent("sign_on", T(0, 5, 30), T(0, 6, 0), Id(1), Id(1), None, None),
     OwnDutyEvent("taxi", T(0, 6, 0), T(0, 6, 14), Id(1), Id(2), None, None),
     OwnDutyEvent("sign_on", T(0, 6, 30), T(0, 6, 45), Id(2), Id(7), None, None),
     OwnDutyEvent("sign_on", THourOnly(0, 8), T(0, 9, 0), Id(2), Id(2), None, None),
     OwnDutyEvent("taxi", T(9, 22, 0), T(9, 23, 0), Id(2), Id(1), None, None),
     OwnDutyEvent("sign_on", T(10, 1, 0), T(10, 2, 0), Id(1), Id(1), None, None)}

SeqsUpTo(pool, n) == UNION {[1..k -> pool] : k \in 0..n}

Dataset(kind, events) ==
    [duties |-> IF kind = "int_labels"
                THEN <<FixedDuty, Duty(Id(2), events)>>
                ELSE <<Duty(Id(2), events), FixedDuty>>,
     vehicles |-> VehiclesOf(kind),
     trips |-> TripsOf(kind),
     stops |-> IF kind = "int_labels" THEN <<Stops[2], Stops[1]>> ELSE Stops]

\* kind is a kind of vehicle collection, events the events of duty "2",
\* in_id_order tells whether the collections come in the order of their ids
DatasetChoices ==
    {<<kind, events>> :
        kind \in {"aligned", "exchanged"},
        events \in SeqsUpTo(ReferenceEvents, MaxDutyEvents)}
    \cup {<<kind, events>> :
            kind \in {"int_labels", "empty"}, events \in SeqsUpTo(ReferenceEvents, 1)}

TimeDatasetChoices ==
    {<<"aligned", events>> : events \in SeqsUpTo(TimeEvents, MaxDutyEvents)}

\* a record under the id of obj that differs from obj
ConflictingCopy(obj_type, obj) ==
    CASE obj_type = "duties" ->
           [obj EXCEPT !.duty_events = Append(@, VehicleDutyEvent(Id(2), 0))]
      [] obj_type = "vehicles" -> [obj EXCEPT !.vehicle_events = <<>>]
      [] obj_type = "trips" -> [obj EXCEPT !.arrival_time = T(0, 23, 59)]
      [] obj_type = "stops" ->
           [obj EXCEPT !.stop_name = IF @ = NameA THEN NameB ELSE NameA]

\* the dataset with one more record in one collection
WithRepeatedId(dataset, obj_type, copy) ==
    [dataset EXCEPT ![obj_type] = Append(@, copy)]

\* a dataset whose references all resolve, duty "2" being one sign-on
RepeatedIdBase ==
    Dataset("aligned", <<OwnDutyEvent("sign_on", T(0, 5, 30), T(0, 6, 0),
                                      Id(1), Id(1), None, None)>>)

\* the datasets that repeat an id: in one of the four collections the first
\* record comes a second time, as it is or changed
RepeatedIdDatasets ==
    {WithRepeatedId(RepeatedIdBase, obj_type, RepeatedIdBase[obj_type][1]) :
        obj_type \in DOMAIN fields_to_sort_by_id}
    \cup {WithRepeatedId(RepeatedIdBase, obj_type,
                         ConflictingCopy(obj_type, RepeatedIdBase[obj_type][1])) :
            obj_type \in DOMAIN fields_to_sort_by_id}

\* vehicles whose service trips duty "2" drives in turn: trip "1" on vehicle
\* "1", trip "2" on vehicle "2", then trip "3" on vehicle "1" again
ReturnVehicles ==
    <<Vehicle(Id(1), <<ServiceTripEvent(Id(0), Id(1), None, None, Id(2)),
                       ServiceTripEvent(Id(1), Id(3), None, None, Id(2))>>),
      Vehicle(Id(2), <<ServiceTripEvent(Id(0), Id(2), None, None, Id(10)),
                       ServiceTripEvent(Id(1), Id(2), None, None, Id(2))>>)>>

ReturnTrips ==
    <<Trips[2], Trips[1], Trip(Id(3), T(0, 10, 0), T(0, 10, 30), Id(1), Id(2))>>

\* the vehicle_event duty events of duty "2" for these vehicles
ReturnEvents ==
    {VehicleDutyEvent(Id(1), 0), VehicleDutyEvent(Id(2), 1),
     VehicleDutyEvent(Id(1), 1)}

\* the datasets in which duty "2" uses both vehicles, in any order and with
\* a return to a vehicle used earlier
ReturnDatasets ==
    {_sort_all_raw_data_list(
         [duties |-> <<Duty(Id(2), events), FixedDuty>>,
          vehicles |-> ReturnVehicles,
          trips |-> ReturnTrips,
          stops |-> Stops]) : events \in SeqsUpTo(ReturnEvents, MaxDutyEvents)}

\* every dataset with its collections in the order of their ids, and the
\* datasets whose duty "2" has at most one event also in the order given
\* above, which is not the order of the ids
Datasets ==
    {_sort_all_raw_data_list(Dataset(c[1], c[2])) :
        c \in DatasetChoices \cup TimeDatasetChoices}
    \cup {Dataset(c[1], c[2]) : c \in {x \in DatasetChoices : Len(x[2]) <= 1}}
    \cup RepeatedIdDatasets
    \cup ReturnDatasets

\* ------------------------------------------------------------------------
\* The state machine: a dataset, the last call made on it and its result
\* ------------------------------------------------------------------------
VARIABLES raw_data, call, result

vars == <<raw_data, call, result>>

\* the arguments the calls are made with
Thresholds == {0, 15, 16}
BreakTypeSets ==
    {{}, {"taxi"}, {"sign_on", "depot_pull_out", "vehicle_event", "service_trip"}}

\* the vehicle_event duty events of the dataset: the code calls
\* _get_vehicle_event_by_index with the vehicle id and the index of one
VehicleDutyEvents ==
    {raw_data.duties[d].duty_events[e] :
        <<d, e>> \in {x \in (1..Len(raw_data.duties)) \X (1..(MaxDutyEvents + 1)) :
                        /\ x[2] <= Len(raw_data.duties[x[1]].duty_events)
                        /\ raw_data.duties[x[1]].duty_events[x[2]].duty_event_type
                             = "vehicle_event"}}

ReportOps ==
    {"generate_duty_start_end_times_report",
     "generate_duty_start_end_times_and_stops_report",
     "generate_duty_breaks_report"}

\* each behaviour observes one call on a loaded dataset
ReportCallable == call.op = "load"

\* the private helpers run inside a report operation, behind
\* _sort_all_raw_data_list: they are observed on a loaded dataset whose
\* collections are in the order of their ids
HelperCallable ==
    call.op = "load" /\ raw_data = _sort_all_raw_data_list(raw_data)

Init ==
    /\ raw_data \in Datasets
    /\ call = [op |-> "load"]
    /\ result = Ok(None)

\* a report operation returns: r is what it returned or raised, and the
\* dataset as it left it
ReportReturns(c, r) ==
    /\ call' = c
    /\ result' = [exc |-> r.exc, val |-> r.val]
    /\ raw_data' = r.raw_data

GenerateDutyStartEndTimesReport ==
    /\ ReportCallable
    /\ ReportReturns([op |-> "generate_duty_start_end_times_report",
                      raw_data |-> raw_data],
                     generate_duty_start_end_times_report(raw_data))

GenerateDutyStartEndTimesAndStopsReport ==
    /\ ReportCallable
    /\ ReportReturns([op |-> "generate_duty_start_end_times_and_stops_report",
                      raw_data |-> raw_data],
                     generate_duty_start_end_times_and_stops_report(raw_data))

GenerateDutyBreaksReport ==
    /\ ReportCallable
    /\ \E min_duration_mins \in Thresholds, explicit_break_event_types \in BreakTypeSets :
          ReportReturns([op |-> "generate_duty_breaks_report", raw_data |-> raw_data,
                         min_duration_mins |-> min_duration_mins,
                         explicit_break_event_types |-> explicit_break_event_types],
                        generate_duty_breaks_report(raw_data, min_duration_mins,
                                                    explicit_break_event_types))

\* the first step of every report operation, observed on its own
ValidateJsonData ==
    /\ ReportCallable
    /\ call' = [op |-> "_validate_json_data"]
    /\ result' = _validate_json_data(raw_data)
    /\ UNCHANGED raw_data

GetVehicleEventByIndex ==
    /\ HelperCallable
    /\ \E duty_event \in VehicleDutyEvents :
          /\ call' = [op |-> "_get_vehicle_event_by_index",
                      vehicle_id |-> duty_event.vehicle_id,
                      idx |-> duty_event.vehicle_event_sequence]
          /\ result' = _get_vehicle_event_by_index(raw_data, duty_event.vehicle_id,
                                                   duty_event.vehicle_event_sequence)
    /\ UNCHANGED raw_data

GetDutyEventTime ==
    /\ HelperCallable
    /\ \E d \in 1..Len(raw_data.duties) :
       \E e \in 1..Len(raw_data.duties[d].duty_events) :
       \E start_or_end \in {"start", "end"} :
          /\ call' = [op |-> "_get_duty_event_time",
                      duty_event |-> raw_data.duties[d].duty_events[e],
                      start_or_end |-> start_or_end]
          /\ result' = _get_duty_event_time(raw_data.duties[d].duty_events[e],
                                            raw_data, start_or_end)
    /\ UNCHANGED raw_data

CalculateBreaks ==
    /\ HelperCallable
    /\ \E d \in 1..Len(raw_data.duties) :
       \E min_duration_mins \in Thresholds, explicit_break_event_types \in BreakTypeSets :
          /\ call' = [op |-> "_calculate_breaks",
                      duty_id |-> raw_data.duties[d].duty_id,
                      min_duration_mins |-> min_duration_mins,
                      explicit_break_event_types |-> explicit_break_event_types]
          /\ result' = _calculate_breaks(raw_data, raw_data.duties[d].duty_id,
                                         min_duration_mins,
                                         explicit_break_event_types)
          /\ raw_data' = RawDataBehindPopulate(raw_data, raw_data.duties[d].duty_id,
                              _populate_duty_events_with_details(raw_data,
                                  raw_data.duties[d].duty_id,
                                  explicit_break_event_types))

PopulateDutyEventsWithDetails ==
    /\ HelperCallable
    /\ \E d \in 1..Len(raw_data.duties) :
       \E explicit_break_event_types \in BreakTypeSets :
          /\ call' = [op |-> "_populate_duty_events_with_details",
                      duty_id |-> raw_data.duties[d].duty_id,
                      explicit_break_event_types |-> explicit_break_event_types]
          /\ result' = _populate_duty_events_with_details(raw_data,
                           raw_data.duties[d].duty_id, explicit_break_event_types)
          /\ raw_data' = RawDataBehindPopulate(raw_data, raw_data.duties[d].duty_id,
                              _populate_duty_events_with_details(raw_data,
                                  raw_data.duties[d].duty_id,
                                  explicit_break_event_types))

Next ==
    \/ GenerateDutyStartEndTimesReport
    \/ GenerateDutyStartEndTimesAndStopsReport
    \/ GenerateDutyBreaksReport
    \/ ValidateJsonData
    \/ GetVehicleEventByIndex
    \/ GetDutyEventTime
    \/ CalculateBreaks
    \/ PopulateDutyEventsWithDetails

Spec == Init /\ [][Next]_vars

\* ------------------------------------------------------------------------
\* The functions of src/src/utils/time.py, applied to times of their own
\* ------------------------------------------------------------------------
\* day offsets of one and of two digits, around the ends of the range and
\* around the length of a month; times of day at both ends of a day
DayOffsets == {0, 1, 9, 10, 30, 31, 99}
TimesOfDay == {<<0, 0>>, <<12, 30>>, <<23, 59>>}

\* the well-formed day-offset times <day>.<HH>:<MM>
DayOffsetTimes == {T(d, hm[1], hm[2]) : d \in DayOffsets, hm \in TimesOfDay}

\* the arguments day_offset_to_simple_time is applied to: day offsets of
\* one, two and three digits, and texts without a separator
SimpleTimeArguments ==
    {T(d, 4, 5) : d \in {1, 12, 123}} \cup {S(<<48, 52, 58, 48, 53>>), S(<<>>)}

UtilsInit ==
    /\ raw_data = _sort_all_raw_data_list(Dataset("aligned", <<>>))
    /\ call = [op |-> "load"]
    /\ result = Ok(None)

CalculateDurationInMinutes ==
    /\ call.op = "load"
    /\ \E start_time \in DayOffsetTimes, end_time \in DayOffsetTimes :
          /\ call' = [op |-> "calculate_duration_in_minutes",
                      start_time |-> start_time, end_time |-> end_time]
          /\ result' = calculate_duration_in_minutes(start_time, end_time)
    /\ UNCHANGED raw_data

DayOffsetToSimpleTime ==
    /\ call.op = "load"
    /\ \E day_offset_time_sting \in SimpleTimeArguments :
          /\ call' = [op |-> "day_offset_to_simple_time",
                      day_offset_time_sting |-> day_offset_time_sting]
          /\ result' = day_offset_to_simple_time(day_offset_time_sting)
    /\ UNCHANGED raw_data

UtilsNext ==
    \/ CalculateDurationInMinutes
    \/ DayOffsetToSimpleTime

UtilsSpec == UtilsInit /\ [][UtilsNext]_vars

\* ------------------------------------------------------------------------
\* export_report_by_type: one call on the dataset a file holds
\* ------------------------------------------------------------------------
\* ReportTypes
DUTY_START_END_TIMES == "duty_start_end_times"
DUTY_START_END_TIMES_AND_STOPS == "duty_start_end_times_and_stops"
DUTY_BREAKS == "duty_breaks"
ReportTypes == {DUTY_START_END_TIMES, DUTY_START_END_TIMES_AND_STOPS, DUTY_BREAKS}

\* AvaliableFormats: "csv", "xlsx", "txt"
CSV == <<99, 115, 118>>
EXCEL == <<120, 108, 115, 120>>
TXT == <<116, 120, 116>>
AvaliableFormats == {CSV, EXCEL, TXT}

\* str.endswith
EndsWith(s, suffix) ==
    /\ Len(suffix) <= Len(s)
    /\ SubSeq(s, Len(s) - Len(suffix) + 1, Len(s)) = suffix

\* the first match statement: the report of the type, kwargs going to the
\* breaks report only
GeneratedReport(json_data, report_type, kwargs) ==
    CASE report_type = DUTY_START_END_TIMES ->
           generate_duty_start_end_times_report(json_data)
      [] report_type = DUTY_START_END_TIMES_AND_STOPS ->
           generate_duty_start_end_times_and_stops_report(json_data)
      [] report_type = DUTY_BREAKS ->
           generate_duty_breaks_report(json_data, kwargs.min_duration_mins,
                                       kwargs.explicit_break_event_types)
      [] OTHER -> [exc |-> "ValueError", val |-> <<>>, raw_data |-> json_data]

\* save_file_path with the extension of the format, added when it is not
\* there
PathWithExtension(save_file_path, output_format) ==
    IF EndsWith(save_file_path, <<46>> \o output_format) THEN save_file_path
    ELSE save_file_path \o <<46>> \o output_format

\* the second match statement: the file the writer of the format leaves
SavedFile(rows, path, output_format) ==
    [path |-> path,
     writer |-> IF output_format = EXCEL THEN "to_excel" ELSE "to_csv",
     sep |-> IF output_format = TXT THEN <<9>> ELSE <<44>>,
     rows |-> rows]

\* the second match statement with an unknown format written as csv
ExportOf_csv_by_default(report, save_file_path, output_format) ==
    IF report.exc # "none"
    THEN [exc |-> report.exc, val |-> None, report |-> report.exc, saved |-> <<>>]
    ELSE [exc |-> "none", val |-> None, report |-> "none",
          saved |-> <<SavedFile(report.val,
                                PathWithExtension(save_file_path, output_format),
                                output_format)>>]

\* report is the result of the first match statement; saved holds the files
\* the call has written
ExportOf(report, save_file_path, output_format) ==
    IF report.exc # "none"
    THEN [exc |-> report.exc, val |-> None, report |-> report.exc, saved |-> <<>>]
    ELSE IF output_format \in AvaliableFormats
    THEN [exc |-> "none", val |-> None, report |-> "none",
          saved |-> <<SavedFile(report.val,
                                PathWithExtension(save_file_path, output_format),
                                output_format)>>]
    ELSE [exc |-> "ValueError", val |-> None, report |-> "none", saved |-> <<>>]

\* json_data is what load(f) returns
export_report_by_type(json_data, report_type, save_file_path, output_format, kwargs) ==
    ExportOf(GeneratedReport(json_data, report_type, kwargs), save_file_path,
             output_format)

\* the arguments of the calls: the types and formats and one that is none,
\* a path without and with an extension, the default kwargs and those of
\* main
ReportTypeArguments == ReportTypes \cup {"invalid_report_type"}
OutputFormatArguments == AvaliableFormats \cup {<<105, 110, 118>>}
SaveFilePaths == {<<111, 117, 116>>, <<111, 117, 116, 46, 99, 115, 118>>}
KwargsArguments ==
    {[min_duration_mins |-> 16, explicit_break_event_types |-> {}],
     [min_duration_mins |-> 16,
      explicit_break_event_types |->
          {"attendance", "deadhead", "depot_pull_in", "depot_pull_out"}]}

\* the datasets the file holds, in the order the file gives
ExportDatasets ==
    {Dataset(kind, events) :
        kind \in VehicleKinds, events \in SeqsUpTo(ReferenceEvents, 1)}
    \cup RepeatedIdDatasets

ExportInit ==
    /\ raw_data \in ExportDatasets
    /\ call = [op |-> "load"]
    /\ result = Ok(None)

ExportReportByType ==
    /\ call.op = "load"
    /\ \E report_type \in ReportTypeArguments, save_file_path \in SaveFilePaths, output_format \in OutputFormatArguments, kwargs \in KwargsArguments :
          /\ call' = [op |-> "export_report_by_type", report_type |-> report_type,
                      save_file_path |-> save_file_path,
                      output_format |-> output_format, kwargs |-> kwargs]
          /\ result' = export_report_by_type(raw_data, report_type, save_file_path,
                                             output_format, kwargs)
    /\ UNCHANGED raw_data

ExportNext == ExportReportByType

ExportSpec == ExportInit /\ [][ExportNext]_vars

\* ------------------------------------------------------------------------
\* _get_object_by_id on its own: one call on a list of a dataset
\* ------------------------------------------------------------------------
\* ids of both types the datasets use: the str ids of the collections and of
\* the event labels, the int indexes of the duty events
LookupIds == {Id(1), Id(2), Id(9), Id(10), I(0), I(1), I(5)}

\* is_objects_sorted: left out, True, False
LookupStrategies == {"None", "True", "False"}

\* the lists the program searches, each with its id field: the four
\* collections and the events of each vehicle
ObjectLists(dataset) ==
    {<<dataset[obj_type], fields_to_sort_by_id[obj_type]>> :
        obj_type \in DOMAIN fields_to_sort_by_id}
    \cup {<<dataset.vehicles[i].vehicle_events, "vehicle_event_sequence">> :
            i \in 1..Len(dataset.vehicles)}

\* datasets as loaded and as _sort_all_raw_data_list leaves them, with and
\* without a repeated id
LookupDatasets ==
    {Dataset(kind, <<>>) : kind \in VehicleKinds}
    \cup {_sort_all_raw_data_list(Dataset(kind, <<>>)) : kind \in VehicleKinds}
    \cup RepeatedIdDatasets
    \cup {_sort_all_raw_data_list(dataset) : dataset \in RepeatedIdDatasets}

LookupInit ==
    /\ raw_data \in LookupDatasets
    /\ call = [op |-> "load"]
    /\ result = Ok(None)

GetObjectById ==
    /\ call.op = "load"
    /\ \E list \in ObjectLists(raw_data), id_ \in LookupIds, is_objects_sorted \in LookupStrategies :
          /\ call' = [op |-> "_get_object_by_id", objects |-> list[1],
                      object_id_key |-> list[2], id_ |-> id_,
                      is_objects_sorted |-> is_objects_sorted]
          /\ result' = _get_object_by_id(list[1], list[2], id_, is_objects_sorted)
    /\ UNCHANGED raw_data

LookupNext == GetObjectById

LookupSpec == LookupInit /\ [][LookupNext]_vars

\* ------------------------------------------------------------------------
\* Vocabulary of the properties
\* ------------------------------------------------------------------------
AllDutyEvents ==
    {raw_data.duties[d].duty_events[e] :
        <<d, e>> \in {x \in (1..Len(raw_data.duties)) \X (1..(MaxDutyEvents + 1)) :
                        x[2] <= Len(raw_data.duties[x[1]].duty_events)}}

EventsOf(duty) == {duty.duty_events[e] : e \in 1..Len(duty.duty_events)}

Duties == {raw_data.duties[d] : d \in 1..Len(raw_data.duties)}

VehiclesWithId(vehicle_id) ==
    {v \in {raw_data.vehicles[i] : i \in 1..Len(raw_data.vehicles)} :
        v.vehicle_id = vehicle_id}

TripsWithId(trip_id) ==
    {x \in {raw_data.trips[i] : i \in 1..Len(raw_data.trips)} : x.trip_id = trip_id}

\* the label of a vehicle event and an index name the same sequence number
SameSequence(label, idx) == PyStr(label) = PyStr(idx)

IsVehicleEvent(duty_event) == duty_event.duty_event_type = "vehicle_event"

\* the duty event names a vehicle the dataset does not hold
MissingVehicle(duty_event) ==
    IsVehicleEvent(duty_event) /\ VehiclesWithId(duty_event.vehicle_id) = {}

\* the duty event names a vehicle of the dataset and an index behind the end
\* of its event list
OutOfRange(duty_event) ==
    /\ IsVehicleEvent(duty_event)
    /\ \E v \in VehiclesWithId(duty_event.vehicle_id) :
          duty_event.vehicle_event_sequence.v[1] >= Len(v.vehicle_events)

\* the duty event names a position of a vehicle whose event carries another
\* label
Mismatched(duty_event) ==
    /\ IsVehicleEvent(duty_event)
    /\ \E v \in VehiclesWithId(duty_event.vehicle_id) :
          LET i == duty_event.vehicle_event_sequence.v[1]
          IN  /\ i \in 0..(Len(v.vehicle_events) - 1)
              /\ ~SameSequence(v.vehicle_events[i + 1].vehicle_event_sequence,
                               duty_event.vehicle_event_sequence)

\* every reference of the duty event resolves, at the position it names
Resolves(duty_event) ==
    \/ ~IsVehicleEvent(duty_event)
    \/ \E v \in VehiclesWithId(duty_event.vehicle_id) :
          LET i == duty_event.vehicle_event_sequence.v[1]
          IN  /\ i \in 0..(Len(v.vehicle_events) - 1)
              /\ SameSequence(v.vehicle_events[i + 1].vehicle_event_sequence,
                              duty_event.vehicle_event_sequence)
              /\ v.vehicle_events[i + 1].vehicle_event_type = "service_trip"
                    => TripsWithId(v.vehicle_events[i + 1].trip_id) # {}

\* a time of the form <day>.<HH>:<MM>
HasDayHourMinute(time) ==
    /\ Len(SplitDot(time.v)) = 2
    /\ Len(Split(SplitDot(time.v)[2], 58, <<>>)) = 2

OwnTimesParse(duty_event) ==
    IsVehicleEvent(duty_event)
    \/ (HasDayHourMinute(duty_event.start_time)
        /\ HasDayHourMinute(duty_event.end_time))

\* the rows of the returned report that belong to a duty
RowsOf(duty_id) == {i \in 1..Len(result.val) : result.val[i].duty_id = duty_id}

\* the duty whose references resolve in every dataset that holds vehicles
ValidDutyId == Id(10)

\* the dataset passes the schema and every duty has an event
ValidNonEmpty ==
    /\ DRIVERS_SCHEDULE_SCHEMA(raw_data)
    /\ \A duty \in Duties : duty.duty_events # <<>>

\* ------------------------------------------------------------------------
\* Properties
\* ------------------------------------------------------------------------
C1Case ==
    /\ call.op \in ReportOps
    /\ ValidNonEmpty
    /\ \A duty \in Duties :
          duty.duty_id = ValidDutyId => \A e \in EventsOf(duty) : Resolves(e)
    /\ \A e \in AllDutyEvents : Resolves(e) \/ MissingVehicle(e)
    /\ \A e \in AllDutyEvents : OwnTimesParse(e)
    /\ \E e \in AllDutyEvents : MissingVehicle(e)

\* C1 (as claimed): NotFound isolation.  In each of the three report
\* operations, when a duty has an event, at any position, that names a
\* vehicle the dataset does not hold and the other duty resolves, the
\* operation completes, reports the valid duty and has no row for the duty
\* with the missing vehicle.
C1_NotFoundIsolation ==
    C1Case =>
        /\ result.exc = "none"
        /\ RowsOf(ValidDutyId) # {}
        /\ \A duty \in Duties :
              (\E e \in EventsOf(duty) : MissingVehicle(e)) => RowsOf(duty.duty_id) = {}

\* C2 (as claimed): sequence-index fallback.  When the labels of the events
\* of a vehicle are not their positions and one of them carries the label
\* idx, _get_vehicle_event_by_index returns the event with that label.
C2_SequenceIndexFallback ==
    call.op = "_get_vehicle_event_by_index" =>
        \A v \in VehiclesWithId(call.vehicle_id) :
            (/\ \E i \in 1..Len(v.vehicle_events) :
                   ~SameSequence(v.vehicle_events[i].vehicle_event_sequence, I(i - 1))
             /\ \E i \in 1..Len(v.vehicle_events) :
                   SameSequence(v.vehicle_events[i].vehicle_event_sequence, call.idx))
            => /\ result.exc = "none"
               /\ SameSequence(result.val.vehicle_event_sequence, call.idx)

\* C3 (as claimed): SequenceMismatch is recoverable.  On schema-valid data
\* whose indices all lie inside the event lists, a position whose event
\* carries another label never ends a report operation with an error.
C3_SequenceMismatchRecoverable ==
    (/\ call.op \in ReportOps
     /\ ValidNonEmpty
     /\ \A e \in AllDutyEvents : Resolves(e) \/ Mismatched(e) \/ MissingVehicle(e)
     /\ \A e \in AllDutyEvents : OwnTimesParse(e)
     /\ \E e \in AllDutyEvents : Mismatched(e))
    => result.exc = "none"

\* C4 (as claimed): an index behind the end of the vehicle's event list is
\* a NotFound of per-duty scope.  In every report operation the duty is
\* skipped, the other duties are reported and the run is not aborted.
C4_IndexOutOfRangeSkipsDuty ==
    (/\ call.op \in ReportOps
     /\ ValidNonEmpty
     /\ \A e \in AllDutyEvents : Resolves(e) \/ OutOfRange(e)
     /\ \A e \in AllDutyEvents : OwnTimesParse(e)
     /\ \E e \in AllDutyEvents : OutOfRange(e))
    => /\ result.exc = "none"
       /\ RowsOf(ValidDutyId) # {}
       /\ \A duty \in Duties :
             (\E e \in EventsOf(duty) : OutOfRange(e)) => RowsOf(duty.duty_id) = {}

\* C5 (as claimed): MalformedTime is recoverable per duty.  When a time of
\* one duty does not parse as <day>.<HH:MM>, report generation continues and
\* the rows of the other duties are produced.
C5_MalformedTimeSkipsDuty ==
    (/\ call.op \in ReportOps
     /\ ValidNonEmpty
     /\ \A e \in AllDutyEvents : Resolves(e)
     /\ \E e \in AllDutyEvents : ~OwnTimesParse(e))
    => /\ result.exc = "none"
       /\ RowsOf(ValidDutyId) # {}

\* the vehicle events a vehicle_event duty event stands for: the events of
\* its vehicle whose label is its index
VehicleEventsOf(duty_event) ==
    UNION {{v.vehicle_events[i] : i \in {j \in 1..Len(v.vehicle_events) :
                SameSequence(v.vehicle_events[j].vehicle_event_sequence,
                             duty_event.vehicle_event_sequence)}} :
           v \in VehiclesWithId(duty_event.vehicle_id)}

\* the times a duty event starts (edge "start") or ends (edge "end") at,
\* following its references
TimesOf(duty_event, edge) ==
    IF ~IsVehicleEvent(duty_event)
    THEN {IF edge = "start" THEN duty_event.start_time ELSE duty_event.end_time}
    ELSE UNION {IF ve.vehicle_event_type = "service_trip"
                THEN {IF edge = "start" THEN trip.departure_time
                      ELSE trip.arrival_time : trip \in TripsWithId(ve.trip_id)}
                ELSE {IF edge = "start" THEN ve.start_time ELSE ve.end_time} :
                ve \in VehicleEventsOf(duty_event)}

\* the <HH:MM> portion of a day-offset time: what follows its first dot
StripDay(time) ==
    LET dot == CHOOSE i \in 1..Len(time.v) :
                   time.v[i] = 46 /\ \A j \in 1..(i - 1) : time.v[j] # 46
    IN  S(SubSeq(time.v, dot + 1, Len(time.v)))

\* day*1440 + hour*60 + minute of a time <day>.<HH>:<MM>
Minutes(time) ==
    LET parts == SplitDot(time.v)
        hm == Split(parts[2], 58, <<>>)
    IN  DigitsVal(parts[1]) * 1440 + DigitsVal(hm[1]) * 60 + DigitsVal(hm[2])

\* C6: for a vehicle_event duty event that stands for a service_trip
\* vehicle event, _get_duty_event_time returns the departure_time (start) or
\* the arrival_time (end) of the trip the vehicle event names, never a
\* start_time or end_time of the vehicle event itself.
C6_ServiceTripTimesFromTrip ==
    (/\ call.op = "_get_duty_event_time"
     /\ IsVehicleEvent(call.duty_event)
     /\ result.exc = "none")
    => \A ve \in VehicleEventsOf(call.duty_event) :
          ve.vehicle_event_type = "service_trip"
          => \E trip \in TripsWithId(ve.trip_id) :
                result.val = IF call.start_or_end = "start"
                             THEN trip.departure_time ELSE trip.arrival_time

\* C6 happens: a service_trip vehicle event that carries a start_time of its
\* own was resolved, and the time returned is the trip's departure
C6_Witness ==
    /\ call.op = "_get_duty_event_time"
    /\ call.start_or_end = "start"
    /\ IsVehicleEvent(call.duty_event)
    /\ result.exc = "none"
    /\ \E ve \in VehicleEventsOf(call.duty_event) :
          /\ ve.vehicle_event_type = "service_trip"
          /\ ve.start_time # None
          /\ ve.start_time # result.val
          /\ \E trip \in TripsWithId(ve.trip_id) : result.val = trip.departure_time

\* C7: for a duty event that is not a vehicle_event (taxi, sign_on),
\* _get_duty_event_time returns the event's own start_time or end_time and
\* looks nothing up, so it succeeds whatever vehicles and trips hold.
C7_OwnTimesWithoutLookup ==
    (/\ call.op = "_get_duty_event_time"
     /\ ~IsVehicleEvent(call.duty_event))
    => /\ result.exc = "none"
       /\ result.val = IF call.start_or_end = "start"
                        THEN call.duty_event.start_time
                        ELSE call.duty_event.end_time
       /\ ~result.dereferenced

\* C7 happens: a sign_on that also carries a vehicle_id was resolved on a
\* dataset without vehicles and trips
C7_Witness ==
    /\ call.op = "_get_duty_event_time"
    /\ call.duty_event.duty_event_type = "sign_on"
    /\ call.duty_event.vehicle_id # None
    /\ raw_data.vehicles = <<>>
    /\ raw_data.trips = <<>>
    /\ result.exc = "none"
    /\ result.val = call.duty_event.start_time

\* C8: duty span.  Every row of the start/end-times report shows the display
\* form of the start of the duty's first event and of the end of its last
\* event, in the order the events are given.
C8_DutySpanFirstAndLast ==
    (/\ call.op = "generate_duty_start_end_times_report"
     /\ result.exc = "none")
    => \A i \in 1..Len(result.val) :
         \E duty \in Duties :
            /\ duty.duty_id = result.val[i].duty_id
            /\ duty.duty_events # <<>>
            /\ result.val[i].start_time
                  \in {StripDay(t) : t \in TimesOf(duty.duty_events[1], "start")}
            /\ result.val[i].end_time
                  \in {StripDay(t) :
                         t \in TimesOf(duty.duty_events[Len(duty.duty_events)], "end")}

\* C8 happens: a reported duty whose first event, a service trip, starts
\* after its last event, a sign-on, has ended
C8_Witness ==
    /\ call.op = "generate_duty_start_end_times_report"
    /\ result.exc = "none"
    /\ \E i \in 1..Len(result.val) :
       \E duty \in Duties :
          /\ duty.duty_id = result.val[i].duty_id
          /\ Len(duty.duty_events) >= 2
          /\ IsVehicleEvent(duty.duty_events[1])
          /\ ~IsVehicleEvent(duty.duty_events[Len(duty.duty_events)])
          /\ result.val[i].start_time = StripDay(T(0, 7, 0))
          /\ result.val[i].end_time = StripDay(T(0, 6, 0))

\* the positions of the resolved events behind which the next event does not
\* start at once
Gaps(events) ==
    {i \in 1..(Len(events) - 1) : events[i].end_time # events[i + 1].start_time}

\* C9: implicit-break detection.  Before the threshold filter,
\* _calculate_breaks holds exactly one implicit break for each adjacent pair
\* of resolved events whose times differ, in timeline order, with the
\* previous event's end as start, the minutes up to the current event's
\* start as duration and the previous event's destination as location, and
\* none for a pair whose times are equal or for a duty of less than two
\* events.
C9_ImplicitBreaks ==
    (/\ call.op = "_calculate_breaks"
     /\ result.left = "return")
    => LET events == result.duty_events
           implicit == result.implicit_breaks
       IN  /\ Len(implicit) = Cardinality(Gaps(events))
           /\ \A i \in Gaps(events) :
                 implicit[Cardinality({j \in Gaps(events) : j <= i})] =
                     [start_time |-> events[i].end_time,
                      duration |-> Minutes(events[i + 1].start_time)
                                     - Minutes(events[i].end_time),
                      location |-> events[i].destination_stop_id]

\* C9 happens: a duty of three events, the second starting when the first
\* ends and the third starting days after the second has ended, with one
\* implicit break
C9_Witness ==
    /\ call.op = "_calculate_breaks"
    /\ result.left = "return"
    /\ Len(result.duty_events) = 3
    /\ Gaps(result.duty_events) = {2}
    /\ Len(result.implicit_breaks) = 1
    /\ result.implicit_breaks[1].duration > 1440
    /\ result.duty_events[2].destination_stop_id
         # result.duty_events[3].destination_stop_id

\* C10 (as claimed): the breaks _calculate_breaks returns for a duty are in
\* the order of the minute counts day*1440 + hour*60 + minute of their
\* day-offset start times, for day offsets of one and of two digits.
C10_BreaksChronological ==
    (/\ call.op = "_calculate_breaks"
     /\ result.exc = "none")
    => LET kept == SelectSeq(result.raw_breaks,
                             LAMBDA b : b.duration >= call.min_duration_mins)
       IN  /\ Len(kept) = Len(result.val)
           /\ \A i, j \in 1..Len(kept) :
                 i < j => Minutes(kept[i].start_time) <= Minutes(kept[j].start_time)

\* the candidate breaks of a _calculate_breaks call: the explicit and the
\* implicit breaks it collected
Candidates == result.explicit_breaks \o result.implicit_breaks

\* the candidates the threshold of the call admits
Admitted ==
    {i \in 1..Len(Candidates) : Candidates[i].duration >= call.min_duration_mins}

\* C11: threshold filter.  Every break _calculate_breaks returns, and every
\* row of the breaks report, has a duration of at least min_duration_mins;
\* every explicit or implicit candidate of at least min_duration_mins is
\* returned, with its duration and the display form of its start, and
\* nothing else is: a candidate of exactly the threshold is kept, a shorter
\* one is dropped.
C11_ThresholdFilter ==
    /\ (call.op = "_calculate_breaks" /\ result.exc = "none")
        => /\ \A j \in 1..Len(result.val) :
                 result.val[j].duration >= call.min_duration_mins
           /\ Len(result.val) = Cardinality(Admitted)
           /\ \A i \in Admitted :
                 \E j \in 1..Len(result.val) :
                    /\ result.val[j].duration = Candidates[i].duration
                    /\ result.val[j].start_time = StripDay(Candidates[i].start_time)
    /\ (call.op = "generate_duty_breaks_report" /\ result.exc = "none")
        => \A j \in 1..Len(result.val) :
              result.val[j].break_duration >= call.min_duration_mins

\* C11 happens: with a threshold of 16 minutes a break of 16 minutes is
\* returned and a candidate of 15 minutes is not
C11_Witness ==
    /\ call.op = "_calculate_breaks"
    /\ call.min_duration_mins = 16
    /\ result.exc = "none"
    /\ \E j \in 1..Len(result.val) : result.val[j].duration = 16
    /\ \E i \in 1..Len(Candidates) : Candidates[i].duration = 15
    /\ \A j \in 1..Len(result.val) : result.val[j].duration # 15

\* the number of rows a breaks report holds for a duty
BreakCount(report, duty_id) ==
    Cardinality({i \in 1..Len(report) : report[i].duty_id = duty_id})

\* C12 (as claimed): the breaks report is monotonic in the threshold.  For
\* every dataset, also one in which the stop of a break is missing from
\* stops, every duty and any two thresholds t1 <= t2, the report made with
\* t2 holds at most as many breaks of the duty as the report made with t1.
C12_MonotonicInThreshold ==
    (call.op = "generate_duty_breaks_report" /\ result.exc = "none")
    => \A t2 \in Thresholds :
          t2 >= call.min_duration_mins
          => LET other == generate_duty_breaks_report(raw_data, t2,
                              call.explicit_break_event_types)
             IN  other.exc = "none"
                 => \A duty \in Duties :
                       BreakCount(other.val, duty.duty_id)
                          <= BreakCount(result.val, duty.duty_id)

\* C13 (as claimed): calculate_duration_in_minutes(start, end) is
\* (day_e*1440 + hour_e*60 + minute_e) - (day_s*1440 + hour_s*60 + minute_s)
\* for all well-formed times with a day offset in 0..99, across midnight and
\* across days, negative when end precedes start.
C13_DurationFormula ==
    call.op = "calculate_duration_in_minutes"
    => /\ result.exc = "none"
       /\ result.val = Minutes(call.end_time) - Minutes(call.start_time)

\* the text has a day separator
HasSeparator(text) == \E i \in 1..Len(text.v) : text.v[i] = 46

\* C14: day_offset_to_simple_time returns exactly the HH:MM text behind the
\* day separator, for a day offset of one, two or three digits, and raises
\* ValueError for a text without a separator.
C14_SimpleTime ==
    call.op = "day_offset_to_simple_time"
    => IF HasSeparator(call.day_offset_time_sting)
       THEN result = Ok(StripDay(call.day_offset_time_sting))
       ELSE result.exc = "ValueError"

\* C14 happens: the time of day of a time with a day offset of three digits
C14_Witness ==
    /\ call.op = "day_offset_to_simple_time"
    /\ call.day_offset_time_sting = T(123, 4, 5)
    /\ result = Ok(S(<<48, 52, 58, 48, 53>>))

\* C15: every row of the report of generate_duty_start_end_times_and_stops_report
\* has a non-empty start stop description and a non-empty end stop
\* description (so a duty without service trips, or one whose stop lookup
\* failed, has no row)
C15_StopDescriptionsNonEmpty ==
    (/\ call.op = "generate_duty_start_end_times_and_stops_report"
     /\ result.exc = "none")
    => \A i \in 1..Len(result.val) :
          /\ result.val[i].start_stop_description \notin {None, S(<<>>)}
          /\ result.val[i].end_stop_description \notin {None, S(<<>>)}

\* the dataset passes the schema, no collection repeats an id and every
\* reference of every duty event resolves
AllReferencesResolve ==
    /\ DRIVERS_SCHEDULE_SCHEMA(raw_data)
    /\ \A obj_type \in DOMAIN fields_to_sort_by_id :
          ~HasRepeatedId(raw_data[obj_type], fields_to_sort_by_id[obj_type])
    /\ \A e \in AllDutyEvents : Resolves(e)

\* C16: for a dataset whose references all resolve,
\* generate_duty_start_end_times_report returns a report in which every duty
\* id of the input is in exactly one row and every row carries a duty id of
\* the input
C16_EveryDutyInOneRow ==
    (/\ call.op = "generate_duty_start_end_times_report"
     /\ AllReferencesResolve)
    => /\ result.exc = "none"
       /\ \A duty \in Duties : Cardinality(RowsOf(duty.duty_id)) = 1
       /\ \A i \in 1..Len(result.val) :
             \E duty \in Duties : duty.duty_id = result.val[i].duty_id

\* the start and the end of every event of the duty are single well-formed
\* times of one common day offset
TimesInOneDay(duty) ==
    \E day \in 0..99 :
       \A e \in EventsOf(duty) : \A edge \in {"start", "end"} :
          /\ Cardinality(TimesOf(e, edge)) = 1
          /\ \A t \in TimesOf(e, edge) :
                /\ t.t = "str"
                /\ HasDayHourMinute(t)
                /\ Len(SplitDot(t.v)[2]) = 5
                /\ DigitsVal(SplitDot(t.v)[1]) = day

\* the resolved events of the duty form a timeline within one day offset:
\* each event ends at or after it starts and starts at or after the event
\* before it has ended
Chronological(duty) ==
    /\ TimesInOneDay(duty)
    /\ \A e \in EventsOf(duty) :
          \A s \in TimesOf(e, "start"), t \in TimesOf(e, "end") :
             Minutes(s) <= Minutes(t)
    /\ \A i \in 1..(Len(duty.duty_events) - 1) :
          \A t \in TimesOf(duty.duty_events[i], "end"),
             s \in TimesOf(duty.duty_events[i + 1], "start") :
             Minutes(t) <= Minutes(s)

\* hour*60 + minute of a display time <HH>:<MM>
ClockMinutes(simple_time) ==
    DigitsVal(Split(simple_time.v, 58, <<>>)[1]) * 60
    + DigitsVal(Split(simple_time.v, 58, <<>>)[2])

\* C17: in a breaks report produced with a threshold of at least 1 minute,
\* every row of a duty whose resolved events form a timeline within one day
\* offset (each event ends at or after it starts and starts at or after the
\* previous one has ended) has a break start time at or after the duty's
\* start time and strictly before the duty's end time
C17_BreakStartWithinDuty ==
    (/\ call.op = "generate_duty_breaks_report"
     /\ call.min_duration_mins >= 1
     /\ result.exc = "none")
    => \A i \in 1..Len(result.val) :
          \A duty \in Duties :
             (duty.duty_id = result.val[i].duty_id /\ Chronological(duty))
             => /\ ClockMinutes(result.val[i].start_time)
                      <= ClockMinutes(result.val[i].break_start_time)
                /\ ClockMinutes(result.val[i].break_start_time)
                      < ClockMinutes(result.val[i].end_time)

\* C17 happens: with a threshold of 16 minutes a duty on a timeline has a
\* row for a break that starts when the duty starts and a row for a break
\* that starts later
C17_Witness ==
    /\ call.op = "generate_duty_breaks_report"
    /\ call.min_duration_mins = 16
    /\ result.exc = "none"
    /\ \E duty \in Duties :
          /\ Chronological(duty)
          /\ \E i, j \in 1..Len(result.val) :
                /\ result.val[i].duty_id = duty.duty_id
                /\ result.val[j].duty_id = duty.duty_id
                /\ result.val[i].break_start_time = result.val[i].start_time
                /\ ClockMinutes(result.val[j].break_start_time)
                      > ClockMinutes(result.val[j].start_time)

\* the pairs of records of one collection that carry the same id
RepeatedPairs ==
    {<<obj_type, i, j>> \in (DOMAIN fields_to_sort_by_id) \X (1..4) \X (1..4) :
        /\ i < j
        /\ j <= Len(raw_data[obj_type])
        /\ raw_data[obj_type][i][fields_to_sort_by_id[obj_type]]
             = raw_data[obj_type][j][fields_to_sort_by_id[obj_type]]}

\* the dataset repeats an id and all records under one id are identical
OnlyExactCopies ==
    /\ DRIVERS_SCHEDULE_SCHEMA(raw_data)
    /\ RepeatedPairs # {}
    /\ \A p \in RepeatedPairs : raw_data[p[1]][p[2]] = raw_data[p[1]][p[3]]

\* the dataset holds two different records under one id
HasConflictingCopies ==
    /\ DRIVERS_SCHEDULE_SCHEMA(raw_data)
    /\ \E p \in RepeatedPairs : raw_data[p[1]][p[2]] # raw_data[p[1]][p[3]]

\* C18 (as claimed): exact duplicates are tolerated.  On a dataset that
\* repeats ids only with identical copies of one record,
\* _validate_json_data raises nothing, and a report operation on such a
\* dataset whose references all resolve completes.
C18_ExactDuplicatesTolerated ==
    /\ (call.op = "_validate_json_data" /\ OnlyExactCopies) => result = Ok(None)
    /\ (/\ call.op \in ReportOps
        /\ OnlyExactCopies
        /\ \A duty \in Duties : duty.duty_events # <<>>
        /\ \A e \in AllDutyEvents : Resolves(e) /\ OwnTimesParse(e))
       => result.exc = "none"

\* C19 (as claimed): on a dataset that holds two different records under one
\* id every report operation fails with the dataset-integrity error, the
\* AssertionError of _validate_json_data, and produces no row.
C19_ConflictingDuplicatesFatal ==
    (call.op \in ReportOps /\ HasConflictingCopies)
    => /\ result.exc = "AssertionError"
       /\ result.val = <<>>

\* the positions of the records of the call whose id field equals the id
Matches ==
    {i \in 1..Len(call.objects) : call.objects[i][call.object_id_key] = call.id_}

\* the call searches by bisection
BinarySearch ==
    \/ call.is_objects_sorted = "True"
    \/ call.is_objects_sorted = "None" /\ call.object_id_key \in SortedIdFields

\* the list of the call is in ascending order of the id field
SortedAscending ==
    \A i \in 1..(Len(call.objects) - 1) :
       PyLess(call.objects[i + 1][call.object_id_key],
              call.objects[i][call.object_id_key]) = Ok(FALSE)

\* C20 (as claimed): when the precondition of the strategy holds (linear
\* scan: any order; bisection: the list ascending by the id field),
\* _get_object_by_id returns the first record in list order whose id field
\* equals the id when there is one, and raises KeyError when there is none.
C20_FirstMatchOrKeyError ==
    (/\ call.op = "_get_object_by_id"
     /\ BinarySearch => SortedAscending)
    => IF Matches # {}
       THEN result = Ok(call.objects[CHOOSE i \in Matches : \A j \in Matches : i <= j])
       ELSE result.exc = "KeyError"

Flagged(events) == {i \in 1..Len(events) : events[i].is_break_type = B(TRUE)}

\* C22: explicit breaks.  Before the threshold filter, _calculate_breaks
\* holds exactly one explicit break for each resolved event flagged
\* is_break_type, in timeline order, with the event's start_time as start,
\* the minutes from its start_time to its end_time as duration and its
\* destination_stop_id as location, none for an event that is not flagged,
\* and none at all for an empty explicit_break_event_types.
C22_ExplicitBreaks ==
    (/\ call.op = "_calculate_breaks"
     /\ result.left \in {"implicit_breaks", "return"})
    => /\ Len(result.explicit_breaks) = Cardinality(Flagged(result.duty_events))
       /\ \A i \in Flagged(result.duty_events) :
             result.explicit_breaks[Cardinality({j \in Flagged(result.duty_events) : j <= i})] =
                 [start_time |-> result.duty_events[i].start_time,
                  duration |-> Minutes(result.duty_events[i].end_time)
                                 - Minutes(result.duty_events[i].start_time),
                  location |-> result.duty_events[i].destination_stop_id]
       /\ call.explicit_break_event_types = {} => result.explicit_breaks = <<>>

\* C22 happens: a duty of three resolved events, the first and the third
\* flagged and the second not, with two explicit breaks, one of them at a
\* stop the event does not start at
C22_Witness ==
    /\ call.op = "_calculate_breaks"
    /\ result.left = "return"
    /\ Len(result.duty_events) = 3
    /\ Flagged(result.duty_events) = {1, 3}
    /\ Len(result.explicit_breaks) = 2
    /\ \E i \in {1, 3} :
          result.duty_events[i].origin_stop_id
             # result.duty_events[i].destination_stop_id

\* the duty the call names
DutiesOfCall == {duty \in Duties : duty.duty_id = call.duty_id}

\* C23: rest tagging by effective type.  In the timeline
\* _populate_duty_events_with_details builds, a taxi or sign_on event is
\* flagged is_break_type exactly when its duty_event_type is in the supplied
\* set; a vehicle_event that resolves to a vehicle event other than a
\* service trip is flagged exactly when the type of that vehicle event is in
\* the set; an event that resolves to a service trip is never flagged, also
\* when service_trip or vehicle_event is in the set.
C23_RestTagging ==
    (/\ call.op = "_calculate_breaks"
     /\ result.left # "duty_events")
    => \A duty \in DutiesOfCall :
          /\ Len(result.duty_events) = Len(duty.duty_events)
          /\ \A i \in 1..Len(duty.duty_events) :
                IF ~IsVehicleEvent(duty.duty_events[i])
                THEN result.duty_events[i].is_break_type
                       = B(duty.duty_events[i].duty_event_type
                             \in call.explicit_break_event_types)
                ELSE \A ve \in VehicleEventsOf(duty.duty_events[i]) :
                        result.duty_events[i].is_break_type
                          = B(/\ ve.vehicle_event_type # "service_trip"
                              /\ ve.vehicle_event_type
                                   \in call.explicit_break_event_types)

\* C23 happens: with service_trip and vehicle_event in the set, a timeline
\* holds an event resolved to a service trip that is not flagged and an
\* event resolved to a depot pull-out that is
C23_Witness ==
    /\ call.op = "_calculate_breaks"
    /\ {"service_trip", "vehicle_event"} \subseteq call.explicit_break_event_types
    /\ result.left # "duty_events"
    /\ \E duty \in DutiesOfCall :
       \E i, j \in 1..Len(duty.duty_events) :
          /\ IsVehicleEvent(duty.duty_events[i])
          /\ IsVehicleEvent(duty.duty_events[j])
          /\ \E ve \in VehicleEventsOf(duty.duty_events[i]) :
                ve.vehicle_event_type = "service_trip"
          /\ result.duty_events[i].is_break_type = B(FALSE)
          /\ \E ve \in VehicleEventsOf(duty.duty_events[j]) :
                ve.vehicle_event_type = "depot_pull_out"
          /\ result.duty_events[j].is_break_type = B(TRUE)

StartingAt(breaks, start_time) ==
    SelectSeq(breaks, LAMBDA b : b.start_time = start_time)

\* the raw breaks the threshold of the call admits, in the order of the list
AdmittedOf(breaks) ==
    SelectSeq(breaks, LAMBDA b : b.duration >= call.min_duration_mins)

\* C25: tie-break in the break merge.  Among the breaks with the same
\* day-offset start_time the sorted list keeps the discovery order, the
\* explicit breaks in timeline order and then the implicit breaks in
\* timeline order, and the returned list holds the admitted breaks in the
\* order of the sorted list.
C25_StableMerge ==
    (/\ call.op = "_calculate_breaks"
     /\ result.left = "return")
    => /\ \A i \in 1..Len(Candidates) :
             StartingAt(result.raw_breaks, Candidates[i].start_time)
               = StartingAt(Candidates, Candidates[i].start_time)
       /\ result.exc = "none"
          => /\ Len(result.val) = Len(AdmittedOf(result.raw_breaks))
             /\ \A k \in 1..Len(result.val) :
                   /\ result.val[k].start_time
                        = StripDay(AdmittedOf(result.raw_breaks)[k].start_time)
                   /\ result.val[k].duration
                        = AdmittedOf(result.raw_breaks)[k].duration

\* C25 happens: an explicit break of 14 minutes and an implicit break of
\* days start at the same time, and the returned list holds the explicit
\* one right before the implicit one
C25_Witness ==
    /\ call.op = "_calculate_breaks"
    /\ result.exc = "none"
    /\ Len(result.explicit_breaks) = 1
    /\ \E i \in 1..Len(result.implicit_breaks) :
          /\ result.implicit_breaks[i].start_time = result.explicit_breaks[1].start_time
          /\ result.implicit_breaks[i].duration # result.explicit_breaks[1].duration
          /\ result.implicit_breaks[i].duration >= call.min_duration_mins
    /\ result.explicit_breaks[1].duration >= call.min_duration_mins
    /\ \E k \in 1..(Len(result.val) - 1) :
          /\ result.val[k].start_time = result.val[k + 1].start_time
          /\ result.val[k].duration = result.explicit_breaks[1].duration

\* the event lists a duty is given in the second dataset
OtherEventLists == SeqsUpTo(ReferenceEvents \cup TimeEvents, 1)

\* the dataset with another event list for one duty
WithDutyEvents(dataset, duty_id, events) ==
    [dataset EXCEPT !.duties =
        [d \in 1..Len(dataset.duties) |->
            IF dataset.duties[d].duty_id = duty_id
            THEN [dataset.duties[d] EXCEPT !.duty_events = events]
            ELSE dataset.duties[d]]]

\* the report operation of the call on a dataset
ReportOn(dataset) ==
    CASE call.op = "generate_duty_start_end_times_report" ->
           generate_duty_start_end_times_report(dataset)
      [] call.op = "generate_duty_start_end_times_and_stops_report" ->
           generate_duty_start_end_times_and_stops_report(dataset)
      [] call.op = "generate_duty_breaks_report" ->
           generate_duty_breaks_report(dataset, call.min_duration_mins,
                                       call.explicit_break_event_types)

\* the rows a report holds for a duty, in the order of the report
RowsFor(rows, duty_id) == SelectSeq(rows, LAMBDA row : row.duty_id = duty_id)

\* C26 (as claimed): per-duty independence.  For two datasets whose
\* references all resolve and that differ only in the event list of one
\* duty, each report operation produces the same rows for every other duty.
C26_PerDutyIndependence ==
    (call.op \in ReportOps /\ AllReferencesResolve)
    => \A changed \in Duties : \A events \in OtherEventLists :
          (\A e \in {events[i] : i \in 1..Len(events)} : Resolves(e))
          => \A duty \in Duties \ {changed} :
                RowsFor(ReportOn(WithDutyEvents(raw_data, changed.duty_id, events)).val,
                        duty.duty_id)
                  = RowsFor(result.val, duty.duty_id)

\* the collection is in ascending order of its id field
Ascending(objects, obj_id_field) ==
    \A i \in 1..(Len(objects) - 1) :
       ~LexLess(objects[i + 1][obj_id_field].v, objects[i][obj_id_field].v)

\* the dataset passed to the call gets through _validate_json_data
PassesValidation ==
    /\ DRIVERS_SCHEDULE_SCHEMA(call.raw_data)
    /\ \A obj_type \in DOMAIN fields_to_sort_by_id :
          ~HasRepeatedId(call.raw_data[obj_type], fields_to_sort_by_id[obj_type])

\* C27: in each of the three report operations the four collections are
\* sorted ascending by their id field before the first lookup and stay so:
\* the call leaves raw_data as _sort_all_raw_data_list orders it, whatever
\* the order it was passed in, its rows are those the dataset passed in id
\* order gives, and in the times and the stops report every duty with an
\* event whose references all name records of the dataset has its row, so
\* that no record of the dataset is reported as missing because of the
\* order of a list.
C27_SortedBeforeLookups ==
    (call.op \in ReportOps /\ PassesValidation)
    => /\ raw_data = _sort_all_raw_data_list(call.raw_data)
       /\ \A obj_type \in DOMAIN fields_to_sort_by_id :
             Ascending(raw_data[obj_type], fields_to_sort_by_id[obj_type])
       /\ result.val = ReportOn(raw_data).val
       /\ (/\ result.exc = "none"
           /\ call.op # "generate_duty_breaks_report")
          => \A duty \in Duties :
                (/\ duty.duty_events # <<>>
                 /\ \A e \in EventsOf(duty) : Resolves(e))
                => RowsOf(duty.duty_id) # {}

\* C27 happens: a dataset passed with its vehicles, trips and stops not in
\* the order of their ids, where bisection on the list as passed misses
\* vehicle "2", gives the row of the duty that uses vehicle "2"
C27_Witness ==
    /\ call.op = "generate_duty_start_end_times_and_stops_report"
    /\ ~Ascending(call.raw_data.vehicles, "vehicle_id")
    /\ ~Ascending(call.raw_data.trips, "trip_id")
    /\ ~Ascending(call.raw_data.stops, "stop_id")
    /\ _get_object_by_id(call.raw_data.vehicles, "vehicle_id", Id(2), "True").exc
         = "KeyError"
    /\ result.exc = "none"
    /\ \E i \in RowsOf(Id(10)) : result.val[i].start_stop_description = NameB

\* the rows the times report of the dataset holds for the duty of the call
SpanRows ==
    RowsFor(generate_duty_start_end_times_report(raw_data).val, call.duty_id)

\* C28: the two resolution paths agree.  For every duty event,
\* _get_duty_event_time raises exactly when the body of the loop of
\* _populate_duty_events_with_details raises for that event, with the same
\* exception, and otherwise returns the start_time or end_time that the
\* loop assigns to the event; hence, for a duty whose timeline is built,
\* the span a times report that is produced shows is the start of the first
\* and the end of the last event of the timeline.
C28_ResolutionPathsAgree ==
    /\ call.op = "_get_duty_event_time"
        => \A explicit_break_event_types \in BreakTypeSets :
              /\ PopulateDutyEvent(raw_data, call.duty_event,
                                   explicit_break_event_types).exc = result.exc
              /\ result.exc = "none"
                 => result.val
                      = PopulateDutyEvent(raw_data, call.duty_event,
                            explicit_break_event_types).val[TimeField(call.start_or_end)]
    /\ (/\ call.op = "_populate_duty_events_with_details"
        /\ result.exc = "none"
        /\ result.val # <<>>
        /\ generate_duty_start_end_times_report(raw_data).exc = "none")
        => /\ Len(SpanRows) = 1
           /\ SpanRows[1].start_time = StripDay(result.val[1].start_time)
           /\ SpanRows[1].end_time = StripDay(result.val[Len(result.val)].end_time)

\* C28 happens: the start of a duty event that stands for a service trip was
\* resolved to the departure of the trip, the time the timeline gives the
\* event
C28_Witness ==
    /\ call.op = "_get_duty_event_time"
    /\ call.start_or_end = "start"
    /\ IsVehicleEvent(call.duty_event)
    /\ result.exc = "none"
    /\ \E ve \in VehicleEventsOf(call.duty_event) :
          /\ ve.vehicle_event_type = "service_trip"
          /\ \E trip \in TripsWithId(ve.trip_id) :
                /\ result.val = trip.departure_time
                /\ PopulateDutyEvent(raw_data, call.duty_event, {}).val.start_time
                     = trip.departure_time
                /\ trip.departure_time # trip.arrival_time

\* the duty event stands for a service trip of its vehicle
IsServiceTripEvent(duty_event) ==
    /\ IsVehicleEvent(duty_event)
    /\ \E ve \in VehicleEventsOf(duty_event) : ve.vehicle_event_type = "service_trip"

\* the service-trip events of a duty, in the order of its own event list
ServiceTripEventsOf(duty) == SelectSeq(duty.duty_events, IsServiceTripEvent)

\* the trips a service-trip duty event stands for
ServiceTripsOf(duty_event) ==
    UNION {TripsWithId(ve.trip_id) :
             ve \in {x \in VehicleEventsOf(duty_event) :
                       x.vehicle_event_type = "service_trip"}}

\* the names of the stops with an id
StopNames(stop_id) ==
    {raw_data.stops[i].stop_name :
        i \in {j \in 1..Len(raw_data.stops) : raw_data.stops[j].stop_id = stop_id}}

\* C29 (as claimed): in the stops report of a dataset whose references all
\* resolve, the start stop description of a duty is the name of the origin
\* stop of the first service-trip event in the order of the duty's own
\* event list, and its end stop description is the name of the destination
\* stop of the last one, also when the duty uses several vehicles or
\* returns to a vehicle it used earlier.
C29_StopsInDutyEventOrder ==
    (/\ call.op = "generate_duty_start_end_times_and_stops_report"
     /\ result.exc = "none"
     /\ AllReferencesResolve)
    => \A duty \in Duties :
          ServiceTripEventsOf(duty) # <<>>
          => \A i \in RowsOf(duty.duty_id) :
                /\ \A trip \in ServiceTripsOf(ServiceTripEventsOf(duty)[1]) :
                      result.val[i].start_stop_description
                        \in StopNames(trip.origin_stop_id)
                /\ \A trip \in ServiceTripsOf(
                                   ServiceTripEventsOf(duty)[Len(ServiceTripEventsOf(duty))]) :
                      result.val[i].end_stop_description
                        \in StopNames(trip.destination_stop_id)

\* the dataset without the duties whose event list is empty
WithoutEmptyDuties(dataset) ==
    [dataset EXCEPT !.duties = SelectSeq(@, LAMBDA duty : duty.duty_events # <<>>)]

\* C30 (as claimed): a duty whose duty_events list is empty does not abort
\* report generation.  When a dataset that gets through validation holds
\* such a duty, each of the three report operations returns whenever it
\* returns for the dataset without the empty duties, and the rows of every
\* other duty are the rows it has in that report.
C30_EmptyDutyDoesNotAbort ==
    (/\ call.op \in ReportOps
     /\ PassesValidation
     /\ \E duty \in Duties : duty.duty_events = <<>>
     /\ ReportOn(WithoutEmptyDuties(call.raw_data)).exc = "none")
    => /\ result.exc = "none"
       /\ \A duty \in Duties :
             duty.duty_events # <<>>
             => RowsFor(result.val, duty.duty_id)
                  = RowsFor(ReportOn(WithoutEmptyDuties(call.raw_data)).val,
                            duty.duty_id)
====
